---- MODULE Spec2Model ----
(***************************************************************************)
(* The timeline compositor of src/services/utils.ts: renderVideo, its      *)
(* per-section Preparing / Playing / Done cycle, the frame loop run by      *)
(* setInterval, the image timing and the cross-fade, and the audio sources. *)
(*                                                                         *)
(* Time.  audioCtx.currentTime is the only clock the code reads.  The model *)
(* counts it in clock units of one frame period, 1/FPS second, so that the  *)
(* nominal timer period 1000/30 ms is one unit.  The values the code        *)
(* derives from it (titleDuration, timePerImage, imgProgress, fadeProgress) *)
(* are fractions; they are kept as exact rationals <<numerator, denominator>>*)
(* and computed with the operations the code applies, in the same order.    *)
(***************************************************************************)
EXTENDS Integers, Sequences, FiniteSets

(***************************************************************************)
(* Bounds of the model.                                                    *)
(***************************************************************************)
\* data.parts holds at most MaxParts sections (the timeline is intro + parts)
MaxParts == 1
\* a section's generatedImages holds at most MaxImages entries in a render of
\* the whole timeline, and at most MaxSectionImages where one section is studied
MaxImages == 1
MaxSectionImages == 3
\* a timer callback runs at most MaxTickGap frame periods after the previous one
MaxTickGap == 2
\* an await lets at most MaxStall clock units pass
MaxStall == 1
\* departures from the nominal run (a failed decode or load, a late timer
\* callback, an await during which the clock advances) per render
MaxFaults == 1
\* the user renders the project at most MaxRenders times
MaxRenders == 2
\* the words of a title
MaxWords == 3
\* the zoom progress of a drawn rectangle is a multiple of 1/MaxProgressSteps
MaxProgressSteps == 2

(***************************************************************************)
(* Program constants.                                                      *)
(***************************************************************************)
\* canvas.captureStream(30), setInterval(..., 1000 / 30)
FPS == 30
\* Math.min(4, duration * 0.5): the title card's cap, in seconds
TitleCap == 4
\* voiceBuffer ? voiceBuffer.duration : 5, in seconds
FallbackSeconds == 5

(***************************************************************************)
(* Exact rational arithmetic for the JS numbers.                           *)
(***************************************************************************)
\* (the set constructors bind a value that has been computed, so that an
\* argument is evaluated once however often the definition uses it)
RECURSIVE GCD(_, _)
GCD(a, b) ==
  IF b = 0 THEN a
  ELSE CHOOSE g \in {GCD(q[1], q[2]) : q \in {<<b, a % b>>}} : TRUE

Abs(x) == IF x < 0 THEN -x ELSE x

\* p divided through by g
Lowest(p, g) == <<p[1] \div g, p[2] \div g>>

\* the canonical form of n/d, d > 0
Rat(n, d) ==
  CHOOSE r \in {Lowest(p, GCD(Abs(p[1]), p[2])) : p \in {<<n, d>>}} : TRUE

R(n) == <<n, 1>>

RAdd(a, b) == Rat(a[1] * b[2] + b[1] * a[2], a[2] * b[2])

RSub(a, b) == Rat(a[1] * b[2] - b[1] * a[2], a[2] * b[2])

RMul(a, b) == Rat(a[1] * b[1], a[2] * b[2])

\* a / b for b > 0
RDiv(a, b) == Rat(a[1] * b[2], a[2] * b[1])

RLt(a, b) == a[1] * b[2] < b[1] * a[2]

RLe(a, b) == a[1] * b[2] <= b[1] * a[2]

\* Math.min, Math.max, Math.floor
RMin(a, b) ==
  CHOOSE r \in {IF RLt(p[2], p[1]) THEN p[2] ELSE p[1] :
                  p \in {<<a, b>>}} : TRUE

RMax(a, b) ==
  CHOOSE r \in {IF RLt(p[1], p[2]) THEN p[2] ELSE p[1] :
                  p \in {<<a, b>>}} : TRUE

RFloor(a) == CHOOSE r \in {p[1] \div p[2] : p \in {a}} : TRUE

\* s seconds, in clock units
Seconds(s) == RMul(s, R(FPS))

(***************************************************************************)
(* The inputs.                                                             *)
(***************************************************************************)
\* an image source: the empty string (falsy) or a data URI
Srcs == {"", "src"}

\* the lists of at most m sources drawn from srcs
ImageLists(srcs, m) == UNION {[1..n -> srcs] : n \in 0..m}

\* a section's title: none, or some text
Titles == {"", "Part 1"}

\* a GeneratedSection, with the fields renderVideo reads
Sections(srcs, m) ==
  [title : Titles, titleCard : Srcs, generatedImages : ImageLists(srcs, m),
   generatedAudio : Srcs]

\* the sections of S that have no title (renderVideo reads the title at line
\* 152 only, for the progress message)
Untitled(S) == {s \in S : s.title = ""}

\* bgMusicVolume, in tenths (the slider's step)
Volumes == {0, 2}

Transitions == {"None", "Fade"}

Speeds == {"Slow", "Medium", "Fast"}

\* data.config: absent, or the fields renderVideo reads
NoConfig ==
  [present |-> FALSE, animationSpeed |-> "", transition |-> "None",
   bgMusicVolume |-> 0]

Configs ==
  {NoConfig} \cup
  [present : {TRUE}, animationSpeed : Speeds, transition : Transitions,
   bgMusicVolume : Volumes]

\* the durations, in clock units, a decoded narration may have in a render
Durations == {0, 2}

(***************************************************************************)
(* Lines 140-146: configuration settings.                                  *)
(***************************************************************************)
\* data.config?.animationSpeed || 'Medium'
AnimationSpeed(config) ==
  IF config.present /\ config.animationSpeed # ""
  THEN config.animationSpeed ELSE "Medium"

\* zoomFactors, in hundredths
ZoomFactors == [Slow |-> 105, Medium |-> 115, Fast |-> 125]

\* maxZoom = zoomFactors[animationSpeed]
MaxZoom(animationSpeed) == Rat(ZoomFactors[animationSpeed], 100)

\* data.config?.transition || 'None'
TransitionType(config) ==
  IF config.present THEN config.transition ELSE "None"

\* transitionType === 'Fade' ? 0.5 : 0, in clock units
FadeDuration(transitionType) ==
  IF transitionType = "Fade" THEN Seconds(<<1, 2>>) ELSE R(0)

(***************************************************************************)
(* Lines 156-175: duration and renderable images of a section.             *)
(***************************************************************************)
NoBuffer == [decoded |-> FALSE, duration |-> 0]

\* a section without narration given no duration
SectionDurationNoFallback(voiceBuffer) == voiceBuffer.duration

\* a duration of 0 replaced by the fallback
SectionDurationFloor(voiceBuffer) ==
  IF voiceBuffer.decoded /\ voiceBuffer.duration # 0
  THEN voiceBuffer.duration
  ELSE FallbackSeconds * FPS

\* voiceBuffer ? voiceBuffer.duration : 5
SectionDuration(voiceBuffer) ==
  IF voiceBuffer.decoded THEN voiceBuffer.duration ELSE FallbackSeconds * FPS

\* imagesToShow: the title card when truthy, then the generated images
ImagesToShow(section) ==
  (IF section.titleCard # "" THEN <<section.titleCard>> ELSE <<>>)
    \o section.generatedImages

RECURSIVE FilterBoolean(_)
FilterBoolean(srcs) ==
  IF srcs = <<>> THEN <<>>
  ELSE (IF Head(srcs) # "" THEN <<Head(srcs)>> ELSE <<>>)
         \o FilterBoolean(Tail(srcs))

\* validSrcs = imagesToShow.filter(Boolean)
ValidSrcs(section) == FilterBoolean(ImagesToShow(section))

(***************************************************************************)
(* Lines 212-245: the image timing resolved at one tick.  n is              *)
(* loadedImages.length, duration and sectionElapsed are in clock units.     *)
(***************************************************************************)
\* the title card capped at 4 seconds but not at half the section
TitleDurationNoHalf(duration) ==
  RMin(Seconds(R(TitleCap)), R(duration))

\* Math.min(4, duration * 0.5)
TitleDuration(duration) ==
  RMin(Seconds(R(TitleCap)), RMul(R(duration), <<1, 2>>))

\* the branch of a section with a title card
TitleTiming(n, duration, sectionElapsed) ==
  LET titleDuration == TitleDuration(duration) IN
  IF RLt(R(sectionElapsed), titleDuration)
  THEN [imgIndex |-> 0, start |-> R(0), dur |-> titleDuration]
  ELSE
    LET remainingTime == RSub(R(duration), titleDuration) IN
    IF RLt(R(0), remainingTime) /\ n > 1
    THEN
      LET contentImagesCount == n - 1
          contentElapsed == RSub(R(sectionElapsed), titleDuration)
          timePerImage == RDiv(remainingTime, R(contentImagesCount))
          contentIndex == RFloor(RDiv(contentElapsed, timePerImage))
      IN [imgIndex |-> 1 + contentIndex,
          start |-> RAdd(titleDuration, RMul(R(contentIndex), timePerImage)),
          dur |-> timePerImage]
    ELSE [imgIndex |-> 0, start |-> R(0), dur |-> R(duration)]

\* the even partition with Math.ceil in the place of Math.floor
PlainTimingCeil(n, duration, sectionElapsed) ==
  LET timePerImage == RDiv(R(duration), R(n))
      q == RDiv(R(sectionElapsed), timePerImage)
      imgIndex == IF q[2] = 1 THEN q[1] ELSE RFloor(q) + 1
  IN [imgIndex |-> imgIndex,
      start |-> RMul(R(imgIndex), timePerImage),
      dur |-> timePerImage]

\* the even partition with the images taken from the end of the list
PlainTimingBackwards(n, duration, sectionElapsed) ==
  LET timePerImage == RDiv(R(duration), R(n))
      imgIndex == n - 1 - RFloor(RDiv(R(sectionElapsed), timePerImage))
  IN [imgIndex |-> imgIndex,
      start |-> RMul(R(imgIndex), timePerImage),
      dur |-> timePerImage]

\* the branch of a section without a title card
PlainTiming(n, duration, sectionElapsed) ==
  LET timePerImage == RDiv(R(duration), R(n))
      imgIndex == RFloor(RDiv(R(sectionElapsed), timePerImage))
  IN [imgIndex |-> imgIndex,
      start |-> RMul(R(imgIndex), timePerImage),
      dur |-> timePerImage]

ImageTiming(titleCard, n, duration, sectionElapsed) ==
  IF titleCard # ""
  THEN TitleTiming(n, duration, sectionElapsed)
  ELSE PlainTiming(n, duration, sectionElapsed)

(***************************************************************************)
(* Lines 247-296: the frame composed at one tick.  A frame is the sequence  *)
(* of drawImage calls made after the canvas is cleared; a call whose image  *)
(* has width 0 (a failed load) returns before painting.                     *)
(***************************************************************************)
Min2(a, b) == IF a < b THEN a ELSE b

\* a zoom that runs from maxZoom down to 1
CurrentScaleReversed(maxZoom, progress) ==
  RAdd(R(1), RMul(RSub(maxZoom, R(1)), RSub(R(1), progress)))

\* currentScale = 1.0 + (maxZoom - 1.0) * progress
CurrentScale(maxZoom, progress) ==
  RAdd(R(1), RMul(RSub(maxZoom, R(1)), progress))

\* drawImage(img, progress, alpha); img is the 0-based index in loadedImages
\* painted is FALSE when the guard !img || img.width === 0 returns early
DrawImage(loadedImages, maxZoom, img, progress, alpha) ==
  [img |-> img, progress |-> progress, alpha |-> alpha,
   scale |-> CurrentScale(maxZoom, progress),
   painted |-> (img + 1) \in DOMAIN loadedImages /\ loadedImages[img + 1]]

\* Math.min(1, Math.max(0, (sectionElapsed - currentImageStartTime) / currentImageDuration))
ImgProgress(t, sectionElapsed) ==
  RMin(R(1), RMax(R(0), RDiv(RSub(R(sectionElapsed), t.start), t.dur)))

\* currentImageDuration - (sectionElapsed - currentImageStartTime)
TimeRemaining(t, sectionElapsed) ==
  RSub(t.dur, RSub(R(sectionElapsed), t.start))

\* the incoming opacity running from 1 down to 0
FadeProgressInverted(timeRemaining, fadeDuration) ==
  RDiv(timeRemaining, fadeDuration)

\* 1 - (timeRemaining / fadeDuration)
FadeProgress(timeRemaining, fadeDuration) ==
  RSub(R(1), RDiv(timeRemaining, fadeDuration))

\* a fade window twice as long
InFadeWindowDouble(timeRemaining, fadeDuration) ==
  RLt(timeRemaining, RMul(R(2), fadeDuration))

\* timeRemaining < fadeDuration
InFadeWindow(timeRemaining, fadeDuration) == RLt(timeRemaining, fadeDuration)

\* transitionType === 'Fade' && imgIndex < loadedImages.length - 1
FadeApplies(transitionType, imgIndex, n) ==
  transitionType = "Fade" /\ imgIndex < n - 1

\* a callback that draws over what the canvas shows
ClearCanvasNever(calls) == calls

\* lines 270-271: ctx.fillStyle = '#000'; ctx.fillRect(0,0,width,height):
\* nothing drawn before is left on the canvas
ClearCanvas(calls) == <<>>

ComposeFrame(transitionType, maxZoom, loadedImages, t, sectionElapsed) ==
  LET n == Len(loadedImages)
      currentImg == Min2(t.imgIndex, n - 1)
      imgProgress == ImgProgress(t, sectionElapsed)
      fadeDuration == FadeDuration(transitionType)
      timeRemaining == TimeRemaining(t, sectionElapsed)
      current == DrawImage(loadedImages, maxZoom, currentImg, imgProgress,
                           R(1))
  IN IF FadeApplies(transitionType, t.imgIndex, n)
          /\ InFadeWindow(timeRemaining, fadeDuration)
     THEN <<current,
            DrawImage(loadedImages, maxZoom, t.imgIndex + 1, R(0),
                      FadeProgress(timeRemaining, fadeDuration))>>
     ELSE <<current>>

(***************************************************************************)
(* The state of one call of renderVideo.                                   *)
(***************************************************************************)
VARIABLES
  pc,            \* the statement renderVideo, or its pending callback, is at
  data,          \* the ProjectData fields read outside the section loop
  i,             \* the section loop's index
  section,       \* sections[i]
  clock,         \* audioCtx.currentTime
  bgSource,      \* the background AudioBufferSourceNode, or none
  recorder,      \* the MediaRecorder's state
  voiceBuffer,   \* the decoded narration of the section
  duration,      \* the section's duration
  loadedImages,  \* per preloaded image: TRUE when it loaded (width > 0)
  voiceSource,   \* the narration source of the section, or NoVoice
  startTime,     \* the clock value taken as the section's time zero
  interval,      \* TRUE while the section's setInterval timer is set
  bus,           \* the sources started on the audio bus and not stopped
  frame,         \* the last frame drawn on the canvas
  frames,        \* the number of frames drawn for the section so far
  result,        \* what the returned promise has settled to
  order,         \* history: the indices of the sections that began Preparing
  loopClock,     \* history: the clock when the section began Preparing
  voiceStartedAt,\* history: the clock when voiceSource.start() was called
  bgLog,         \* history: the background source's start and stop, the catch's warn
  faults,        \* the departures from the nominal run so far
  status,        \* App: the AppState
  errorMsg,      \* App: the error message shown, "" for null
  videoUrl,      \* App: the render whose blob the video URL was made of, 0 for null
  renders,       \* history: the calls of renderVideo made so far
  running,       \* history: the calls of renderVideo that have not settled
  progressLog,   \* history: the messages onProgress was called with
  recordStart,   \* history: the clock when recorder.start() was called
  playedTotal,   \* history: the durations of the sections played to their end
  abandoned,     \* App: the component that called renderVideo is unmounted
  card,          \* the call of generateTitleCard studied, NoCard for none
  shown,         \* history: the images that were the current image of a frame of the section
  fit            \* the call of drawImage whose rectangle is studied, NoFit for none

\* the application's state
appVars ==
  <<status, errorMsg, videoUrl, renders, running, abandoned, card, fit>>

\* the history of what the render has put out
logVars == <<progressLog, recordStart, playedTotal, shown>>

vars ==
  <<pc, data, i, section, clock, bgSource, recorder, voiceBuffer, duration,
    loadedImages, voiceSource, startTime, interval, bus, frame, frames,
    result, order, loopClock, voiceStartedAt, bgLog, faults, status,
    errorMsg, videoUrl, renders, running, progressLog, recordStart,
    playedTotal, abandoned, card, shown, fit>>

NoSection ==
  [title |-> "", titleCard |-> "", generatedImages |-> <<>>,
   generatedAudio |-> ""]

NoSource == [created |-> FALSE, loop |-> FALSE, gain |-> R(0)]

\* the sources of the audio bus: the background track, a section's narration
BgNode == [kind |-> "bg", sec |-> -1]

VoiceNode(k) == [kind |-> "voice", sec |-> k]

NoVoice == [kind |-> "none", sec |-> -1]

NoTiming == [imgIndex |-> 0, start |-> R(0), dur |-> R(0)]

NoFrame == [sec |-> -1, elapsed |-> 0, timing |-> NoTiming, calls |-> <<>>]

\* no call of drawImage studied
NoFit ==
  [state |-> "none", aspectRatio |-> "", imgW |-> 0, imgH |-> 0,
   animationSpeed |-> "", progress |-> R(0), x |-> R(0), y |-> R(0),
   scaledW |-> R(0), scaledH |-> R(0)]

\* no call of generateTitleCard
NoCard ==
  [state |-> "none", text |-> <<>>, aspectRatio |-> "", url |-> "",
   width |-> 0, height |-> 0, lines |-> <<>>]

\* 1 for a departure from the nominal run, 0 otherwise
Cost(departs) == IF departs THEN 1 ELSE 0

\* the projects a render may be given: intro, parts, music and config
\* (the whole timeline is rendered at the default speed and at one explicit
\* speed; the study of one section covers the three)
Projects ==
  [backgroundMusic : Srcs,
   config : {c \in Configs : ~c.present \/ c.animationSpeed = "Fast"},
   nParts : 0..MaxParts]

\* line 149: const sections = [data.intro, ...data.parts]
SectionCount(d) == 1 + d.nParts

Init ==
  /\ pc = "start"
  /\ data \in Projects
  /\ i = 0
  /\ section = NoSection
  /\ clock = 0
  /\ bgSource = NoSource
  /\ recorder = "none"
  /\ voiceBuffer = NoBuffer
  /\ duration = 0
  /\ loadedImages = <<>>
  /\ voiceSource = NoVoice
  /\ startTime = 0
  /\ interval = FALSE
  /\ bus = {}
  /\ frame = NoFrame
  /\ frames = 0
  /\ result = "pending"
  /\ order = <<>>
  /\ loopClock = 0
  /\ voiceStartedAt = 0
  /\ bgLog = <<>>
  /\ faults = 0
  /\ status = "RENDERING_VIDEO"
  /\ errorMsg = ""
  /\ videoUrl = 0
  /\ renders = 1
  /\ running = 1
  /\ progressLog = <<>>
  /\ recordStart = 0
  /\ playedTotal = 0
  /\ abandoned = FALSE
  /\ card = NoCard
  /\ shown = {}
  /\ fit = NoFit

(***************************************************************************)
(* Lines 82-99: the canvas and its 2d context.                             *)
(***************************************************************************)
Setup(ctxOk) ==
  /\ pc = "start"
  /\ IF ctxOk
     THEN pc' = "bgmusic" /\ result' = result
     ELSE pc' = "failed" /\ result' = "error"
  /\ UNCHANGED appVars
  /\ UNCHANGED logVars
  /\ UNCHANGED <<data, i, section, clock, bgSource, recorder, voiceBuffer,
                 duration, loadedImages, voiceSource, startTime, interval,
                 bus, frame, frames, order, loopClock, voiceStartedAt, bgLog,
                 faults>>

(***************************************************************************)
(* Lines 105-125: the background music track.                              *)
(***************************************************************************)
\* data.backgroundMusic && data.config?.bgMusicVolume && data.config.bgMusicVolume > 0
BgWanted(d) ==
  /\ d.backgroundMusic # ""
  /\ d.config.present
  /\ d.config.bgMusicVolume # 0
  /\ d.config.bgMusicVolume > 0

\* the gain without the halving
BgGainFull(config) == Rat(config.bgMusicVolume, 10)

\* bgGain.gain.value = data.config.bgMusicVolume * 0.5 (the volume is in tenths)
BgGain(config) == RMul(<<config.bgMusicVolume, 10>>, <<1, 2>>)

\* bgSource.loop = true
BgLoop == TRUE

BgMusic ==
  /\ pc = "bgmusic"
  /\ pc' = IF BgWanted(data) THEN "bgdecode" ELSE "recorder"
  /\ UNCHANGED appVars
  /\ UNCHANGED logVars
  /\ UNCHANGED <<data, i, section, clock, bgSource, recorder, voiceBuffer,
                 duration, loadedImages, voiceSource, startTime, interval,
                 bus, frame, frames, result, order, loopClock,
                 voiceStartedAt, bgLog, faults>>

\* a failure of the track that rejects the render
BgDecodedThrows(ok, stall) ==
  /\ pc = "bgdecode"
  /\ faults + Cost(~ok) + Cost(stall > 0) <= MaxFaults
  /\ faults' = faults + Cost(~ok) + Cost(stall > 0)
  /\ clock' = clock + stall
  /\ IF ok
     THEN /\ bgSource' = [created |-> TRUE, loop |-> BgLoop,
                          gain |-> BgGain(data.config)]
          /\ bus' = bus \cup {BgNode}
          /\ bgLog' = Append(bgLog, "start")
          /\ pc' = "recorder" /\ result' = result
     ELSE /\ bgLog' = bgLog
          /\ pc' = "failed" /\ result' = "error"
          /\ UNCHANGED <<bgSource, bus>>
  /\ UNCHANGED appVars
  /\ UNCHANGED logVars
  /\ UNCHANGED <<data, i, section, recorder, voiceBuffer, duration,
                 loadedImages, voiceSource, startTime, interval, frame,
                 frames, order, loopClock, voiceStartedAt>>

\* the awaits of lines 109-110 settle: the track decoded (ok) or the catch ran
BgDecoded(ok, stall) ==
  /\ pc = "bgdecode"
  /\ faults + Cost(~ok) + Cost(stall > 0) <= MaxFaults
  /\ faults' = faults + Cost(~ok) + Cost(stall > 0)
  /\ clock' = clock + stall
  /\ IF ok
     THEN /\ bgSource' = [created |-> TRUE, loop |-> BgLoop,
                          gain |-> BgGain(data.config)]
          /\ bus' = bus \cup {BgNode}
          /\ bgLog' = Append(bgLog, "start")
     ELSE /\ bgLog' = Append(bgLog, "warn")
          /\ UNCHANGED <<bgSource, bus>>
  /\ pc' = "recorder"
  /\ UNCHANGED appVars
  /\ UNCHANGED logVars
  /\ UNCHANGED <<data, i, section, recorder, voiceBuffer, duration,
                 loadedImages, voiceSource, startTime, interval, frame,
                 frames, result, order, loopClock, voiceStartedAt>>

(***************************************************************************)
(* Lines 127-137: the recorder.                                            *)
(***************************************************************************)
StartRecorder(ok) ==
  /\ pc = "recorder"
  /\ IF ok
     THEN /\ recorder' = "recording" /\ pc' = "loop" /\ result' = result
          /\ recordStart' = clock
     ELSE /\ recorder' = recorder /\ pc' = "failed" /\ result' = "error"
          /\ recordStart' = recordStart
  /\ i' = 0
  /\ UNCHANGED appVars
  /\ UNCHANGED <<progressLog, playedTotal, shown>>
  /\ UNCHANGED <<data, section, clock, bgSource, voiceBuffer, duration,
                 loadedImages, voiceSource, startTime, interval, bus, frame,
                 frames, order, loopClock, voiceStartedAt, bgLog, faults>>

(***************************************************************************)
(* Lines 151-154: the head of the section loop.  Preparing begins.         *)
(***************************************************************************)
\* a label with no word for the section without a title
SectionNameTitleOnly(s) == s.title

\* a loop that stops after the first section
LoopConditionShort(k, d) == k < 1

\* i < sections.length
LoopCondition(k, d) == k < SectionCount(d)

\* line 152: const sectionName = section.title || "Intro"
SectionName(s) == IF s.title # "" THEN s.title ELSE "Intro"

\* line 153: `Rendering: ${sectionName}`
ProgressLabel(s) == "Rendering: " \o SectionName(s)

LoopEnter(s) ==
  /\ pc = "loop"
  /\ LoopCondition(i, data)
  /\ section' = s
  /\ progressLog' = Append(progressLog, ProgressLabel(s))
  /\ order' = Append(order, i)
  /\ loopClock' = clock
  /\ voiceBuffer' = NoBuffer
  /\ voiceSource' = NoVoice
  /\ loadedImages' = <<>>
  /\ frames' = 0
  /\ pc' = IF s.generatedAudio # "" THEN "voicedecode" ELSE "images"
  /\ UNCHANGED appVars
  /\ shown' = {}
  /\ UNCHANGED <<recordStart, playedTotal>>
  /\ UNCHANGED <<data, i, clock, bgSource, recorder, duration, startTime,
                 interval, bus, frame, result, voiceStartedAt, bgLog, faults>>

\* the loop's condition fails: every section has been handled
LoopExit ==
  /\ pc = "loop"
  /\ ~LoopCondition(i, data)
  /\ pc' = "stopbg"
  /\ UNCHANGED appVars
  /\ UNCHANGED logVars
  /\ UNCHANGED <<data, i, section, clock, bgSource, recorder, voiceBuffer,
                 duration, loadedImages, voiceSource, startTime, interval,
                 bus, frame, frames, result, order, loopClock,
                 voiceStartedAt, bgLog, faults>>

(***************************************************************************)
(* Lines 156-165: the awaits of the narration decode settle: a buffer of    *)
(* duration d (ok), or the catch ran.                                       *)
(***************************************************************************)
VoiceDecoded(ok, d, stall) ==
  /\ pc = "voicedecode"
  /\ faults + Cost(~ok) + Cost(stall > 0) <= MaxFaults
  /\ faults' = faults + Cost(~ok) + Cost(stall > 0)
  /\ clock' = clock + stall
  /\ voiceBuffer' = IF ok THEN [decoded |-> TRUE, duration |-> d] ELSE NoBuffer
  /\ pc' = "images"
  /\ UNCHANGED appVars
  /\ UNCHANGED logVars
  /\ UNCHANGED <<data, i, section, bgSource, recorder, duration, loadedImages,
                 voiceSource, startTime, interval, bus, frame, frames, result,
                 order, loopClock, voiceStartedAt, bgLog>>

\* a loop that steps over a section
NextIndexSkips(k) == k + 2

\* the loop's i++ (after continue, and after the frame loop's promise resolved)
NextIndex(k) == k + 1

\* the frame loop entered while the image loads are pending
PrepareImagesNoWait ==
  /\ pc = "images"
  /\ duration' = SectionDuration(voiceBuffer)
  /\ IF Len(ValidSrcs(section)) = 0
     THEN i' = NextIndex(i) /\ pc' = "loop"
     ELSE i' = i /\ pc' = "play"
  /\ UNCHANGED appVars
  /\ UNCHANGED logVars
  /\ UNCHANGED <<data, section, clock, bgSource, recorder, voiceBuffer,
                 loadedImages, voiceSource, startTime, interval, bus, frame,
                 frames, result, order, loopClock, voiceStartedAt, bgLog,
                 faults>>

\* the title card pushed onto the section's own list of images
PrepareImagesInPlace ==
  /\ pc = "images"
  /\ duration' = SectionDuration(voiceBuffer)
  /\ section' = [section EXCEPT !.generatedImages = ImagesToShow(section)]
  /\ IF Len(ValidSrcs(section)) = 0
     THEN i' = NextIndex(i) /\ pc' = "loop"
     ELSE i' = i /\ pc' = "preload"
  /\ UNCHANGED appVars
  /\ UNCHANGED logVars
  /\ UNCHANGED <<data, clock, bgSource, recorder, voiceBuffer,
                 loadedImages, voiceSource, startTime, interval, bus, frame,
                 frames, result, order, loopClock, voiceStartedAt, bgLog,
                 faults>>

(***************************************************************************)
(* Lines 167-175: the duration, the images to show, and the skip.          *)
(***************************************************************************)
PrepareImages ==
  /\ pc = "images"
  /\ duration' = SectionDuration(voiceBuffer)
  /\ IF Len(ValidSrcs(section)) = 0
     THEN i' = NextIndex(i) /\ pc' = "loop"
     ELSE i' = i /\ pc' = "preload"
  /\ UNCHANGED appVars
  /\ UNCHANGED logVars
  /\ UNCHANGED <<data, section, clock, bgSource, recorder, voiceBuffer,
                 loadedImages, voiceSource, startTime, interval, bus, frame,
                 frames, result, order, loopClock, voiceStartedAt, bgLog,
                 faults>>

(***************************************************************************)
(* Lines 177-185: Promise.all of the image loads settles; loads[k] is TRUE  *)
(* when image k loaded and FALSE when its onerror resolved an empty Image.  *)
(***************************************************************************)
Failed(loads) == Cardinality({k \in DOMAIN loads : ~loads[k]})

Preloaded(loads, stall) ==
  /\ pc = "preload"
  /\ DOMAIN loads = DOMAIN ValidSrcs(section)
  /\ faults + Failed(loads) + Cost(stall > 0) <= MaxFaults
  /\ faults' = faults + Failed(loads) + Cost(stall > 0)
  /\ clock' = clock + stall
  /\ loadedImages' = loads
  /\ pc' = "play"
  /\ UNCHANGED appVars
  /\ UNCHANGED logVars
  /\ UNCHANGED <<data, i, section, bgSource, recorder, voiceBuffer, duration,
                 voiceSource, startTime, interval, bus, frame, frames, result,
                 order, loopClock, voiceStartedAt, bgLog>>

(***************************************************************************)
(* Lines 187-200: the narration starts, time zero is taken, the timer is    *)
(* set.  No await separates the three.                                      *)
(***************************************************************************)
PlayVoice ==
  /\ pc = "play"
  /\ IF voiceBuffer.decoded
     THEN /\ voiceSource' = VoiceNode(i)
          /\ bus' = bus \cup {VoiceNode(i)}
          /\ voiceStartedAt' = clock
     ELSE UNCHANGED <<voiceSource, bus, voiceStartedAt>>
  /\ startTime' = clock
  /\ interval' = TRUE
  /\ pc' = "ticking"
  /\ UNCHANGED appVars
  /\ UNCHANGED logVars
  /\ UNCHANGED <<data, i, section, clock, bgSource, recorder, voiceBuffer,
                 duration, loadedImages, frame, frames, result, order,
                 loopClock, bgLog, faults>>

(***************************************************************************)
(* Lines 200-298: one callback of the timer, dt clock units after the       *)
(* previous one (or after setInterval).                                     *)
(***************************************************************************)
\* the end of the section detected one period late
SectionEndedLate(sectionElapsed, d) == sectionElapsed >= d + 1

\* the end of the section detected one comparison late
SectionEndedStrict(sectionElapsed, d) == sectionElapsed > d

\* sectionElapsed >= duration
SectionEnded(sectionElapsed, d) == sectionElapsed >= d

\* a narration left playing at the end of its section
StopVoiceNever(b, v) == b

\* if (voiceSource) try { voiceSource.stop(); } catch(e) {}
StopVoice(b, v) == b \ {v}

\* a callback whose image index lives outside the callback and never goes back
TickCarried(dt) ==
  /\ pc = "ticking"
  /\ interval
  /\ faults + Cost(dt > 1) <= MaxFaults
  /\ faults' = faults + Cost(dt > 1)
  /\ clock' = clock + dt
  /\ LET sectionElapsed == clock' - startTime IN
     IF SectionEnded(sectionElapsed, duration)
     THEN /\ interval' = FALSE
          /\ bus' = StopVoice(bus, voiceSource)
          /\ pc' = "sectiondone"
          /\ playedTotal' = playedTotal + duration
          /\ UNCHANGED <<frame, frames, shown>>
     ELSE \E f \in {ImageTiming(section.titleCard, Len(loadedImages),
                                 duration, sectionElapsed)} :
          \E t \in {[f EXCEPT !.imgIndex =
                                IF frame.timing.imgIndex > @
                                THEN frame.timing.imgIndex ELSE @]} :
             /\ frame' = [sec |-> i, elapsed |-> sectionElapsed, timing |-> t,
                          calls |-> ClearCanvas(frame.calls) \o ComposeFrame(
                                      TransitionType(data.config),
                                      MaxZoom(AnimationSpeed(data.config)),
                                      loadedImages, t, sectionElapsed)]
             /\ frames' = frames + 1
             /\ shown' = shown \cup {Min2(t.imgIndex, Len(loadedImages) - 1)}
             /\ UNCHANGED <<interval, bus, pc, playedTotal>>
  /\ UNCHANGED appVars
  /\ UNCHANGED <<progressLog, recordStart>>
  /\ UNCHANGED <<data, i, section, bgSource, recorder, voiceBuffer, duration,
                 loadedImages, voiceSource, startTime, result, order,
                 loopClock, voiceStartedAt, bgLog>>

Tick(dt) ==
  /\ pc = "ticking"
  /\ interval
  /\ faults + Cost(dt > 1) <= MaxFaults
  /\ faults' = faults + Cost(dt > 1)
  /\ clock' = clock + dt
  /\ LET sectionElapsed == clock' - startTime IN
     IF SectionEnded(sectionElapsed, duration)
     THEN /\ interval' = FALSE
          /\ bus' = StopVoice(bus, voiceSource)
          /\ pc' = "sectiondone"
          /\ playedTotal' = playedTotal + duration
          /\ UNCHANGED <<frame, frames, shown>>
     ELSE \E t \in {ImageTiming(section.titleCard, Len(loadedImages),
                                 duration, sectionElapsed)} :
             /\ frame' = [sec |-> i, elapsed |-> sectionElapsed, timing |-> t,
                          calls |-> ClearCanvas(frame.calls) \o ComposeFrame(
                                      TransitionType(data.config),
                                      MaxZoom(AnimationSpeed(data.config)),
                                      loadedImages, t, sectionElapsed)]
             /\ frames' = frames + 1
             /\ shown' = shown \cup {Min2(t.imgIndex, Len(loadedImages) - 1)}
             /\ UNCHANGED <<interval, bus, pc, playedTotal>>
  /\ UNCHANGED appVars
  /\ UNCHANGED <<progressLog, recordStart>>
  /\ UNCHANGED <<data, i, section, bgSource, recorder, voiceBuffer, duration,
                 loadedImages, voiceSource, startTime, result, order,
                 loopClock, voiceStartedAt, bgLog>>

\* lines 299-300, 151: the awaited promise resolved; the loop goes on
SectionDone ==
  /\ pc = "sectiondone"
  /\ i' = NextIndex(i)
  /\ pc' = "loop"
  /\ UNCHANGED appVars
  /\ UNCHANGED logVars
  /\ UNCHANGED <<data, section, clock, bgSource, recorder, voiceBuffer,
                 duration, loadedImages, voiceSource, startTime, interval,
                 bus, frame, frames, result, order, loopClock,
                 voiceStartedAt, bgLog, faults>>

(***************************************************************************)
(* Lines 302-313: global completion.                                       *)
(***************************************************************************)
StopBackground ==
  /\ pc = "stopbg"
  /\ IF bgSource.created
     THEN bus' = bus \ {BgNode} /\ bgLog' = Append(bgLog, "stop")
     ELSE UNCHANGED <<bus, bgLog>>
  /\ recorder' = "stopping"
  /\ pc' = "finalize"
  /\ UNCHANGED appVars
  /\ UNCHANGED logVars
  /\ UNCHANGED <<data, i, section, clock, bgSource, voiceBuffer, duration,
                 loadedImages, voiceSource, startTime, interval, frame,
                 frames, result, order, loopClock, voiceStartedAt, faults>>

\* recorder.onstop: the blob is built and the returned promise resolves
RecorderStopped ==
  /\ pc = "finalize"
  /\ recorder' = "inactive"
  /\ result' = "blob"
  /\ pc' = "done"
  /\ UNCHANGED appVars
  /\ UNCHANGED logVars
  /\ UNCHANGED <<data, i, section, clock, bgSource, voiceBuffer, duration,
                 loadedImages, voiceSource, startTime, interval, bus, frame,
                 frames, order, loopClock, voiceStartedAt, bgLog, faults>>

\* the encoder fails while it finalizes.  No onerror handler is installed and
\* no timeout is set: when the stop event is still delivered, onstop builds
\* the blob from the chunks received so far; when it is not, the returned
\* promise stays pending.
RecorderFailed(stopEvent) ==
  /\ pc = "finalize"
  /\ recorder' = "error"
  /\ IF stopEvent
     THEN result' = "blob" /\ pc' = "done"
     ELSE result' = result /\ pc' = "hung"
  /\ UNCHANGED appVars
  /\ UNCHANGED logVars
  /\ UNCHANGED <<data, i, section, clock, bgSource, voiceBuffer, duration,
                 loadedImages, voiceSource, startTime, interval, bus, frame,
                 frames, order, loopClock, voiceStartedAt, bgLog, faults>>

(***************************************************************************)
(* The render.                                                             *)
(***************************************************************************)
Next ==
  \/ \E ctxOk \in BOOLEAN : Setup(ctxOk)
  \/ BgMusic
  \/ \E ok \in BOOLEAN, stall \in 0..MaxStall : BgDecoded(ok, stall)
  \/ \E ok \in BOOLEAN : StartRecorder(ok)
  \/ \E s \in Untitled(Sections(Srcs, MaxImages)) : LoopEnter(s)
  \/ LoopExit
  \/ \E ok \in BOOLEAN, d \in Durations, stall \in 0..MaxStall :
       VoiceDecoded(ok, d, stall)
  \/ PrepareImages
  \/ \E n \in 1..(MaxImages + 1), stall \in 0..MaxStall :
       \E loads \in [1..n -> BOOLEAN] : Preloaded(loads, stall)
  \/ PlayVoice
  \/ \E dt \in 1..MaxTickGap : Tick(dt)
  \/ SectionDone
  \/ StopBackground
  \/ RecorderStopped
  \/ \E stopEvent \in BOOLEAN : RecorderFailed(stopEvent)

Spec == Init /\ [][Next]_vars

(***************************************************************************)
(* One section on its own: a render of a timeline of one section, taken     *)
(* where the narration decode has settled (line 167), with the section and  *)
(* the narration's duration drawn from wider sets.  Every generated image   *)
(* is a non-empty source here; the whole-timeline render covers the filter. *)
(* The section has no title: the title is read at line 152 only.            *)
(***************************************************************************)
\* the durations, in clock units, of the narration of the section studied
SectionDurations == {1, 2, 45, 60, 120, 300}

SectionBuffers(s) ==
  {NoBuffer} \cup
  (IF s.generatedAudio # ""
   THEN [decoded : {TRUE}, duration : SectionDurations]
   ELSE {})

SectionInit ==
  /\ pc = "images"
  /\ data \in [backgroundMusic : {""},
               config : {c \in Configs : c.present /\ c.bgMusicVolume = 0},
               nParts : {0}]
  /\ i = 0
  /\ section \in Untitled(Sections({"src"}, MaxSectionImages))
  /\ clock = 0
  /\ bgSource = NoSource
  /\ recorder = "recording"
  /\ voiceBuffer \in SectionBuffers(section)
  /\ duration = 0
  /\ loadedImages = <<>>
  /\ voiceSource = NoVoice
  /\ startTime = 0
  /\ interval = FALSE
  /\ bus = {}
  /\ frame = NoFrame
  /\ frames = 0
  /\ result = "pending"
  /\ order = <<0>>
  /\ loopClock = 0
  /\ voiceStartedAt = 0
  /\ bgLog = <<>>
  /\ faults = Cost(section.generatedAudio # "" /\ ~voiceBuffer.decoded)
  /\ status = "RENDERING_VIDEO"
  /\ errorMsg = ""
  /\ videoUrl = 0
  /\ renders = 1
  /\ running = 1
  /\ progressLog = <<ProgressLabel(section)>>
  /\ recordStart = 0
  /\ playedTotal = 0
  /\ abandoned = FALSE
  /\ card = NoCard
  /\ shown = {}
  /\ fit = NoFit

SectionNext ==
  \/ PrepareImages
  \/ \E n \in 1..(MaxSectionImages + 1), stall \in 0..MaxStall :
       \E loads \in [1..n -> BOOLEAN] : Preloaded(loads, stall)
  \/ PlayVoice
  \/ \E dt \in 1..MaxTickGap : Tick(dt)

SectionSpec == SectionInit /\ [][SectionNext]_vars

\* the section with every timer callback one period after the previous one
\* and no wait for the image loads
IdealNext ==
  \/ PrepareImages
  \/ \E n \in 1..(MaxSectionImages + 1) :
       \E loads \in [1..n -> BOOLEAN] : Preloaded(loads, 0)
  \/ PlayVoice
  \/ Tick(1)

IdealSpec == SectionInit /\ [][IdealNext]_vars

(***************************************************************************)
(* The application, src/unnamed/part_000: the project is generated (state   *)
(* COMPLETE) and the user renders it, at most MaxRenders times.             *)
(***************************************************************************)
\* a render control shown in every state
RenderControlAlways(st) == TRUE

\* line 465: the results dashboard, which holds the render button, is
\* rendered when status === AppState.COMPLETE && projectData
RenderControlVisible(st) == st = "COMPLETE"

\* lines 46-55: the configuration the application starts with
AppConfig ==
  [present |-> TRUE, animationSpeed |-> "Medium", transition |-> "None",
   bgMusicVolume |-> 2]

\* line 242: { ...projectData, config: config }, the config always present
AppProjects ==
  [backgroundMusic : Srcs, config : {AppConfig}, nParts : 0..MaxParts]

AppInit ==
  /\ pc = "idle"
  /\ data \in AppProjects
  /\ i = 0
  /\ section = NoSection
  /\ clock = 0
  /\ bgSource = NoSource
  /\ recorder = "none"
  /\ voiceBuffer = NoBuffer
  /\ duration = 0
  /\ loadedImages = <<>>
  /\ voiceSource = NoVoice
  /\ startTime = 0
  /\ interval = FALSE
  /\ bus = {}
  /\ frame = NoFrame
  /\ frames = 0
  /\ result = "pending"
  /\ order = <<>>
  /\ loopClock = 0
  /\ voiceStartedAt = 0
  /\ bgLog = <<>>
  /\ faults = 0
  /\ status = "COMPLETE"
  /\ errorMsg = ""
  /\ videoUrl = 0
  /\ renders = 0
  /\ running = 0
  /\ progressLog = <<>>
  /\ recordStart = 0
  /\ playedTotal = 0
  /\ abandoned = FALSE
  /\ card = NoCard
  /\ shown = {}
  /\ fit = NoFit

\* lines 237-243: the click on the render button; renderVideo is called with
\* a new canvas, audio context and recorder
HandleRenderVideo ==
  /\ RenderControlVisible(status)
  /\ ~abandoned
  /\ renders < MaxRenders
  /\ status' = "RENDERING_VIDEO"
  /\ renders' = renders + 1
  /\ running' = running + 1
  /\ pc' = "start"
  /\ i' = 0
  /\ section' = NoSection
  /\ clock' = 0
  /\ bgSource' = NoSource
  /\ recorder' = "none"
  /\ voiceBuffer' = NoBuffer
  /\ duration' = 0
  /\ loadedImages' = <<>>
  /\ voiceSource' = NoVoice
  /\ startTime' = 0
  /\ interval' = FALSE
  /\ bus' = {}
  /\ frame' = NoFrame
  /\ frames' = 0
  /\ result' = "pending"
  /\ order' = <<>>
  /\ loopClock' = 0
  /\ voiceStartedAt' = 0
  /\ bgLog' = <<>>
  /\ faults' = 0
  /\ progressLog' = <<>>
  /\ recordStart' = 0
  /\ playedTotal' = 0
  /\ shown' = {}
  /\ UNCHANGED <<data, errorMsg, videoUrl, abandoned, card, fit>>

\* The caller abandons the render between two callbacks of the timer: the
\* component is unmounted.  renderVideo takes the data and the progress
\* callback (utils.ts line 81) and returns the promise: the caller holds no
\* handle on the timer, the audio context or the recorder, and the
\* component's cleanup (lines 61-67) stops the speech recognition only.
Abandon ==
  /\ status = "RENDERING_VIDEO"
  /\ pc = "ticking"
  /\ ~abandoned
  /\ abandoned' = TRUE
  /\ UNCHANGED <<pc, data, i, section, clock, bgSource, recorder, voiceBuffer,
                 duration, loadedImages, voiceSource, startTime, interval,
                 bus, frame, frames, result, order, loopClock,
                 voiceStartedAt, bgLog, faults, status, errorMsg, videoUrl,
                 renders, running, card, fit>>
  /\ UNCHANGED logVars

\* lines 246-248: the awaited promise resolved with the blob
RenderResolved ==
  /\ pc = "done"
  /\ result = "blob"
  /\ videoUrl' = renders
  /\ status' = "COMPLETE"
  /\ running' = running - 1
  /\ pc' = "idle"
  /\ UNCHANGED <<data, i, section, clock, bgSource, recorder, voiceBuffer,
                 duration, loadedImages, voiceSource, startTime, interval,
                 bus, frame, frames, result, order, loopClock,
                 voiceStartedAt, bgLog, faults, errorMsg, renders, abandoned,
                 card, fit>>
  /\ UNCHANGED logVars

\* a catch block that swallows the error
RenderRejectedSilently ==
  /\ pc = "failed"
  /\ result = "error"
  /\ status' = "COMPLETE"
  /\ running' = running - 1
  /\ pc' = "idle"
  /\ UNCHANGED <<data, i, section, clock, bgSource, recorder, voiceBuffer,
                 duration, loadedImages, voiceSource, startTime, interval,
                 bus, frame, frames, result, order, loopClock,
                 voiceStartedAt, bgLog, faults, errorMsg, videoUrl, renders,
                 abandoned, card, fit>>
  /\ UNCHANGED logVars

\* lines 249-252: the awaited promise rejected
RenderRejected ==
  /\ pc = "failed"
  /\ result = "error"
  /\ errorMsg' = "Failed to render video."
  /\ status' = "COMPLETE"
  /\ running' = running - 1
  /\ pc' = "idle"
  /\ UNCHANGED <<data, i, section, clock, bgSource, recorder, voiceBuffer,
                 duration, loadedImages, voiceSource, startTime, interval,
                 bus, frame, frames, result, order, loopClock,
                 voiceStartedAt, bgLog, faults, videoUrl, renders, abandoned,
                 card, fit>>
  /\ UNCHANGED logVars

AppNext ==
  \/ HandleRenderVideo
  \/ Abandon
  \/ RenderResolved
  \/ RenderRejected
  \/ \E ctxOk \in BOOLEAN : Setup(ctxOk)
  \/ BgMusic
  \/ \E ok \in BOOLEAN, stall \in 0..MaxStall : BgDecoded(ok, stall)
  \/ \E ok \in BOOLEAN : StartRecorder(ok)
  \/ \E s \in Untitled(Sections(Srcs, MaxImages)) : LoopEnter(s)
  \/ LoopExit
  \/ \E ok \in BOOLEAN, d \in Durations, stall \in 0..MaxStall :
       VoiceDecoded(ok, d, stall)
  \/ PrepareImages
  \/ \E n \in 1..(MaxImages + 1), stall \in 0..MaxStall :
       \E loads \in [1..n -> BOOLEAN] : Preloaded(loads, stall)
  \/ PlayVoice
  \/ \E dt \in 1..MaxTickGap : Tick(dt)
  \/ SectionDone
  \/ StopBackground
  \/ RecorderStopped
  \/ \E stopEvent \in BOOLEAN : RecorderFailed(stopEvent)

AppSpec == AppInit /\ [][AppNext]_vars

(***************************************************************************)
(* generateTitleCard, lines 12-76.  A text is the list of its words, as     *)
(* text.split(' ') gives them, each word known by the width in pixels that  *)
(* measureText gives the word and its trailing space at the 80px font; the  *)
(* empty text is one empty word.                                            *)
(***************************************************************************)
\* the widths of a word and its space: the empty word, a word, a word wider
\* than the card
WordWidths == {20, 900, 1800}

Texts == UNION {[1..n -> WordWidths] : n \in 1..MaxWords}

AspectRatios == {"16:9", "9:16"}

\* lines 16-24
CanvasWidth(aspectRatio) == IF aspectRatio = "9:16" THEN 1080 ELSE 1920

CanvasHeight(aspectRatio) == IF aspectRatio = "9:16" THEN 1920 ELSE 1080

\* line 39
FontSize(aspectRatio) == IF aspectRatio = "9:16" THEN 70 ELSE 80

\* line 46
MaxWidth(aspectRatio) ==
  CanvasWidth(aspectRatio) - (IF aspectRatio = "9:16" THEN 100 ELSE 200)

RECURSIVE SumWidths(_)
SumWidths(line) ==
  IF line = <<>> THEN 0 ELSE Head(line) + SumWidths(Tail(line))

\* ctx.measureText(testLine).width at the card's font size
MeasureText(line, fontSize) == (SumWidths(line) * fontSize) \div 80

\* a wrapping loop whose first word may start a new line
RECURSIVE WrapLinesNoGuard(_, _, _, _, _)
WrapLinesNoGuard(words, n, line, lines, aspectRatio) ==
  IF n > Len(words)
  THEN Append(lines, line)
  ELSE LET testLine == Append(line, words[n])
           testWidth == MeasureText(testLine, FontSize(aspectRatio))
       IN IF testWidth > MaxWidth(aspectRatio)
          THEN WrapLinesNoGuard(words, n + 1, <<words[n]>>,
                                Append(lines, line), aspectRatio)
          ELSE WrapLinesNoGuard(words, n + 1, testLine, lines, aspectRatio)

\* lines 47-62: the wrapping loop from word n on, and the push of the last line
RECURSIVE WrapLines(_, _, _, _, _)
WrapLines(words, n, line, lines, aspectRatio) ==
  IF n > Len(words)
  THEN Append(lines, line)
  ELSE LET testLine == Append(line, words[n])
           testWidth == MeasureText(testLine, FontSize(aspectRatio))
       IN IF testWidth > MaxWidth(aspectRatio) /\ n > 1
          THEN WrapLines(words, n + 1, <<words[n]>>, Append(lines, line),
                         aspectRatio)
          ELSE WrapLines(words, n + 1, testLine, lines, aspectRatio)

\* the promise of generateTitleCard resolves: with '' when the canvas gives
\* no 2d context (lines 28-31), with the card's data URL otherwise (line 74)
GenerateTitleCard(ctxOk) ==
  /\ card.state = "called"
  /\ card' =
       IF ctxOk
       THEN [card EXCEPT !.state = "resolved",
                         !.url = "data:image/png",
                         !.width = CanvasWidth(card.aspectRatio),
                         !.height = CanvasHeight(card.aspectRatio),
                         !.lines = WrapLines(card.text, 1, <<>>, <<>>,
                                             card.aspectRatio)]
       ELSE [card EXCEPT !.state = "resolved",
                         !.url = "",
                         !.width = CanvasWidth(card.aspectRatio),
                         !.height = CanvasHeight(card.aspectRatio)]
  /\ UNCHANGED <<pc, data, i, section, clock, bgSource, recorder, voiceBuffer,
                 duration, loadedImages, voiceSource, startTime, interval,
                 bus, frame, frames, result, order, loopClock,
                 voiceStartedAt, bgLog, faults, status, errorMsg, videoUrl,
                 renders, running, abandoned, fit>>
  /\ UNCHANGED logVars

\* a call of generateTitleCard, made while the assets are generated
TitleInit ==
  /\ pc = "idle"
  /\ data \in AppProjects
  /\ i = 0
  /\ section = NoSection
  /\ clock = 0
  /\ bgSource = NoSource
  /\ recorder = "none"
  /\ voiceBuffer = NoBuffer
  /\ duration = 0
  /\ loadedImages = <<>>
  /\ voiceSource = NoVoice
  /\ startTime = 0
  /\ interval = FALSE
  /\ bus = {}
  /\ frame = NoFrame
  /\ frames = 0
  /\ result = "pending"
  /\ order = <<>>
  /\ loopClock = 0
  /\ voiceStartedAt = 0
  /\ bgLog = <<>>
  /\ faults = 0
  /\ status = "GENERATING_ASSETS"
  /\ errorMsg = ""
  /\ videoUrl = 0
  /\ renders = 0
  /\ running = 0
  /\ progressLog = <<>>
  /\ recordStart = 0
  /\ playedTotal = 0
  /\ abandoned = FALSE
  /\ card \in [state : {"called"}, text : Texts, aspectRatio : AspectRatios,
                url : {""}, width : {0}, height : {0}, lines : {<<>>}]
  /\ shown = {}
  /\ fit = NoFit

TitleNext == \E ctxOk \in BOOLEAN : GenerateTitleCard(ctxOk)

TitleSpec == TitleInit /\ [][TitleNext]_vars

(***************************************************************************)
(* drawImage's rectangle, lines 248-267, for one image on the canvas of     *)
(* lines 83-92.                                                             *)
(***************************************************************************)
\* the widths and heights, in pixels, of the image drawn
ImageSizes == {1, 720, 1000, 1280, 4000}

\* the zoom progress of the call
FitProgresses == {Rat(k, MaxProgressSteps) : k \in 0..MaxProgressSteps}

\* lines 84-92: the canvas is 1280x720, or 720x1280 for 9:16
RenderWidth(aspectRatio) == IF aspectRatio = "9:16" THEN 720 ELSE 1280

RenderHeight(aspectRatio) == IF aspectRatio = "9:16" THEN 1280 ELSE 720

\* a fit that shows the whole image
BaseScaleContain(ratioW, ratioH) == RMin(ratioW, ratioH)

\* line 256: Math.max(ratioW, ratioH)
BaseScale(ratioW, ratioH) == RMax(ratioW, ratioH)

\* lines 254-262: the rectangle the image is drawn into
CoverFit(canvasW, canvasH, imgW, imgH, currentScale) ==
  LET ratioW == Rat(canvasW, imgW)
      ratioH == Rat(canvasH, imgH)
      finalScale == RMul(BaseScale(ratioW, ratioH), currentScale)
      scaledW == RMul(R(imgW), finalScale)
      scaledH == RMul(R(imgH), finalScale)
  IN [x |-> RDiv(RSub(R(canvasW), scaledW), R(2)),
      y |-> RDiv(RSub(R(canvasH), scaledH), R(2)),
      scaledW |-> scaledW, scaledH |-> scaledH]

\* one call of drawImage with an image of positive width
DrawImageRect ==
  /\ fit.state = "called"
  /\ LET rect == CoverFit(RenderWidth(fit.aspectRatio),
                          RenderHeight(fit.aspectRatio), fit.imgW, fit.imgH,
                          CurrentScale(MaxZoom(fit.animationSpeed),
                                       fit.progress))
     IN fit' = [fit EXCEPT !.state = "drawn", !.x = rect.x, !.y = rect.y,
                           !.scaledW = rect.scaledW,
                           !.scaledH = rect.scaledH]
  /\ UNCHANGED <<pc, data, i, section, clock, bgSource, recorder, voiceBuffer,
                 duration, loadedImages, voiceSource, startTime, interval,
                 bus, frame, frames, result, order, loopClock,
                 voiceStartedAt, bgLog, faults, status, errorMsg, videoUrl,
                 renders, running, abandoned, card>>
  /\ UNCHANGED logVars

FitInit ==
  /\ pc = "idle"
  /\ data \in AppProjects
  /\ i = 0
  /\ section = NoSection
  /\ clock = 0
  /\ bgSource = NoSource
  /\ recorder = "none"
  /\ voiceBuffer = NoBuffer
  /\ duration = 0
  /\ loadedImages = <<>>
  /\ voiceSource = NoVoice
  /\ startTime = 0
  /\ interval = FALSE
  /\ bus = {}
  /\ frame = NoFrame
  /\ frames = 0
  /\ result = "pending"
  /\ order = <<>>
  /\ loopClock = 0
  /\ voiceStartedAt = 0
  /\ bgLog = <<>>
  /\ faults = 0
  /\ status = "RENDERING_VIDEO"
  /\ errorMsg = ""
  /\ videoUrl = 0
  /\ renders = 0
  /\ running = 0
  /\ progressLog = <<>>
  /\ recordStart = 0
  /\ playedTotal = 0
  /\ abandoned = FALSE
  /\ card = NoCard
  /\ shown = {}
  /\ fit \in [state : {"called"}, aspectRatio : AspectRatios,
               imgW : ImageSizes, imgH : ImageSizes, animationSpeed : Speeds,
               progress : FitProgresses, x : {R(0)}, y : {R(0)},
               scaledW : {R(0)}, scaledH : {R(0)}]

FitNext == DrawImageRect

FitSpec == FitInit /\ [][FitNext]_vars

(***************************************************************************)
(* The render under the assumption that what renderVideo waits for happens: *)
(* the clock advances and the timer's callback runs, every fetch, decode    *)
(* and image load settles (it completes or fails), and the recorder's stop  *)
(* event is delivered unless the encoder fails.  The awaits take no clock   *)
(* time here, the timer's callbacks are one period apart, and the config is *)
(* present with transition None.                                            *)
(***************************************************************************)
LiveInit ==
  Init /\ data.config.present /\ data.config.transition = "None"

LiveNext ==
  \/ \E ctxOk \in BOOLEAN : Setup(ctxOk)
  \/ BgMusic
  \/ \E ok \in BOOLEAN : BgDecoded(ok, 0)
  \/ \E ok \in BOOLEAN : StartRecorder(ok)
  \/ \E s \in Sections(Srcs, MaxImages) : LoopEnter(s)
  \/ LoopExit
  \/ \E ok \in BOOLEAN, d \in Durations : VoiceDecoded(ok, d, 0)
  \/ PrepareImages
  \/ \E n \in 1..(MaxImages + 1) :
       \E loads \in [1..n -> BOOLEAN] : Preloaded(loads, 0)
  \/ PlayVoice
  \/ Tick(1)
  \/ SectionDone
  \/ StopBackground
  \/ RecorderStopped
  \/ \E stopEvent \in BOOLEAN : RecorderFailed(stopEvent)

LiveSpec == LiveInit /\ [][LiveNext]_vars /\ WF_vars(LiveNext)

\* the same render, its sections with and without a title, with no
\* assumption on what happens in the end
ProgressSpec == LiveInit /\ [][LiveNext]_vars

(***************************************************************************)
(* What the claims speak of.                                               *)
(***************************************************************************)
\* the last frame drawn belongs to the section being played or just ended
FrameOfSection ==
  pc \in {"ticking", "sectiondone"} /\ frame.sec = i /\ frames > 0

\* the end of the interval resolved for the last frame
IntervalEnd(t) == RAdd(t.start, t.dur)

\* the elapsed time e lies in the interval t
InInterval(t, e) == RLe(t.start, R(e)) /\ RLt(R(e), IntervalEnd(t))

(***************************************************************************)
(* C1.  Sections are rendered strictly in timeline order, intro first and  *)
(* then the parts in list order: a frame is drawn and a narration is        *)
(* started only for the section that began Preparing last, sections begin   *)
(* Preparing in index order, and a section that is Done is left only for    *)
(* the loop's next index, which is the next section's Preparing or, after   *)
(* the last section, global completion.                                     *)
(***************************************************************************)
C1_TimelineOrder ==
  [][/\ (frame' # frame =>
           /\ frame'.sec = order[Len(order)]
           /\ order' = order)
     /\ (voiceSource' # voiceSource /\ voiceSource' # NoVoice =>
           /\ voiceSource'.sec = order[Len(order)]
           /\ order' = order)
     /\ (order' # order =>
           /\ order' = Append(order, Len(order))
           /\ Len(order') <= SectionCount(data))
     /\ (pc = "sectiondone" => pc' = "loop" /\ i' = i + 1)
     /\ (pc = "loop" =>
           \/ i < SectionCount(data) /\ order' = Append(order, i)
              /\ pc' \in {"voicedecode", "images"}
           \/ i = SectionCount(data) /\ pc' = "stopbg" /\ order' = order)
    ]_vars

\* the second section has drawn a frame and the render completed
C1_Witness ==
  pc = "done" /\ order = <<0, 1>> /\ frame.sec = 1

(***************************************************************************)
(* C2.  In a section with no title card, N > 0 images and duration D > 0,   *)
(* the interval resolved at a tick with elapsed time e is image             *)
(* floor(e / (D/N)), starting at index * (D/N) and lasting D/N; the         *)
(* intervals are the N consecutive slices [k*D/N, (k+1)*D/N) of [0, D):     *)
(* their durations sum to D, their starts increase strictly, each ends where*)
(* the next starts, and the one resolved contains e.                        *)
(***************************************************************************)
C2_EvenPartition ==
  FrameOfSection /\ section.titleCard = "" =>
    LET N == Len(loadedImages)
        D == duration
        e == frame.elapsed
        t == frame.timing
        k == (e * N) \div D
    IN /\ N > 0 /\ D > 0 /\ 0 <= e /\ e < D
       /\ t.imgIndex = k
       /\ k \in 0..(N - 1)
       /\ t.start = Rat(k * D, N)
       /\ t.dur = Rat(D, N)
       /\ RLt(R(0), t.dur)
       /\ RMul(R(N), t.dur) = R(D)
       /\ IntervalEnd(t) = Rat((k + 1) * D, N)
       /\ InInterval(t, e)

\* the third of three images is on screen
C2_Witness ==
  /\ FrameOfSection /\ section.titleCard = ""
  /\ Len(loadedImages) = 3 /\ duration = 45
  /\ frame.timing = [imgIndex |-> 2, start |-> R(30), dur |-> R(15)]

(***************************************************************************)
(* C3.  In a section with a title card, M > 0 content images and duration   *)
(* D > 0, the title card occupies [0, T) with T = min(4 s, D/2) and content *)
(* image j occupies [T + j*(D-T)/M, T + (j+1)*(D-T)/M); the intervals cover *)
(* [0, D) without gap or overlap.  D = 10 s and M = 3 give T = 4 s and       *)
(* content intervals of 2 s starting at 4, 6 and 8 s; D = 2 s gives T = 1 s. *)
(***************************************************************************)
C3_TitleThenContent ==
  FrameOfSection /\ section.titleCard # "" /\ Len(loadedImages) > 1 =>
    LET M == Len(loadedImages) - 1
        D == duration
        e == frame.elapsed
        t == frame.timing
        \* 2T, in clock units
        T2 == Min2(2 * TitleCap * FPS, D)
        j == ((2 * e - T2) * M) \div (2 * D - T2)
    IN /\ D > 0 /\ 0 <= e /\ e < D
       /\ IF 2 * e < T2
          THEN t = [imgIndex |-> 0, start |-> R(0), dur |-> Rat(T2, 2)]
          ELSE /\ j \in 0..(M - 1)
               /\ t.imgIndex = 1 + j
               /\ t.start = Rat(T2 * M + j * (2 * D - T2), 2 * M)
               /\ t.dur = Rat(2 * D - T2, 2 * M)
               /\ IntervalEnd(t) = Rat(T2 * M + (j + 1) * (2 * D - T2), 2 * M)
       /\ InInterval(t, e)
       /\ RAdd(Rat(T2, 2), RMul(R(M), Rat(2 * D - T2, 2 * M))) = R(D)
       /\ (D = 10 * FPS /\ M = 3 =>
             t \in {[imgIndex |-> 0, start |-> R(0), dur |-> R(4 * FPS)],
                    [imgIndex |-> 1, start |-> R(4 * FPS), dur |-> R(2 * FPS)],
                    [imgIndex |-> 2, start |-> R(6 * FPS), dur |-> R(2 * FPS)],
                    [imgIndex |-> 3, start |-> R(8 * FPS), dur |-> R(2 * FPS)]})
       /\ (D = 2 * FPS /\ 2 * e < T2 => t.dur = R(FPS))
       /\ (D = 2 * FPS /\ 2 * e >= T2 => RMul(R(M), t.dur) = R(FPS))

\* D = 10 s, M = 3: the last content image, from 8 s on
C3_Witness ==
  /\ FrameOfSection /\ section.titleCard # ""
  /\ Len(loadedImages) = 4 /\ duration = 10 * FPS
  /\ frame.timing = [imgIndex |-> 3, start |-> R(8 * FPS), dur |-> R(2 * FPS)]

(***************************************************************************)
(* C4.  In a section with a title card and no content image, at every tick  *)
(* the resolved interval is image 0 with start 0 and duration D, and the    *)
(* zoom progress of the frame is elapsed / D.                               *)
(***************************************************************************)
C4_TitleAlone ==
  FrameOfSection /\ section.titleCard # "" /\ Len(loadedImages) = 1 =>
    /\ frame.timing = [imgIndex |-> 0, start |-> R(0), dur |-> R(duration)]
    /\ Len(frame.calls) = 1
    /\ frame.calls[1].img = 0
    /\ frame.calls[1].progress = Rat(frame.elapsed, duration)

(***************************************************************************)
(* C5.  With one tick per frame period and transition None, a rendered      *)
(* section with no title card, N images and duration D draws exactly 30*D   *)
(* frames, image k in the k-th block of 30*D/N consecutive frames (for 2    *)
(* images and 4 s: 120 frames, image 1 in frames 0-59, image 2 in 60-119).  *)
(***************************************************************************)
C5_FramesPerSection ==
  /\ TransitionType(data.config) = "None"
  /\ section.titleCard = ""
  /\ Len(loadedImages) > 0
  =>
    LET N == Len(loadedImages)
        D == duration
        \* the 0-based number of the last frame drawn
        f == frames - 1
    IN /\ (pc = "sectiondone" => frames = D)
       /\ (FrameOfSection => frame.timing.imgIndex = (f * N) \div D)
       /\ (pc = "sectiondone" /\ D = 4 * FPS => frames = 120)

(***************************************************************************)
(* C6.  A section with no title card and no non-empty image source is       *)
(* skipped: no frame loop is started for it, no frame is drawn, its         *)
(* narration is not started, and the clock at which the next section starts *)
(* is the clock at which the skipped section was reached.                   *)
(***************************************************************************)
C6_SkippedSection ==
  /\ pc \in {"images", "loop"}
  /\ order # <<>>
  /\ Len(ValidSrcs(section)) = 0
  =>
    /\ ~interval
    /\ frames = 0
    /\ frame.sec # order[Len(order)]
    /\ voiceSource = NoVoice
    /\ VoiceNode(order[Len(order)]) \notin bus
    /\ clock = loopClock

(***************************************************************************)
(* C7.  Under transition Fade, at every tick of a non-last image's interval *)
(* with less than 0.5 s remaining, the frame is the current image at        *)
(* opacity 1 and then the next image in list order at opacity               *)
(* 1 - timeRemaining/0.5 with zoom progress 0 (each painted when it loaded);*)
(* with 0.25 s remaining the incoming opacity is 1/2.                       *)
(***************************************************************************)
C7_CrossFade ==
  /\ FrameOfSection
  /\ TransitionType(data.config) = "Fade"
  /\ frame.timing.imgIndex < Len(loadedImages) - 1
  /\ RLt(RSub(IntervalEnd(frame.timing), R(frame.elapsed)), Seconds(<<1, 2>>))
  =>
    LET t == frame.timing
        remaining == RSub(IntervalEnd(t), R(frame.elapsed))
        cur == frame.calls[1]
        nxt == frame.calls[2]
    IN /\ Len(frame.calls) = 2
       /\ cur.img = t.imgIndex /\ cur.alpha = R(1)
       /\ cur.painted = loadedImages[cur.img + 1]
       /\ nxt.img = t.imgIndex + 1 /\ nxt.progress = R(0)
       /\ nxt.painted = loadedImages[nxt.img + 1]
       /\ RMul(nxt.alpha, Seconds(<<1, 2>>)) = RSub(Seconds(<<1, 2>>), remaining)
       /\ RLe(R(0), nxt.alpha) /\ RLe(nxt.alpha, R(1))
       /\ (remaining = Seconds(<<1, 4>>) => nxt.alpha = <<1, 2>>)

\* mid-fade: 0.25 s before the interval's end both images are drawn
C7_Witness ==
  /\ FrameOfSection
  /\ RSub(IntervalEnd(frame.timing), R(frame.elapsed)) = Seconds(<<1, 4>>)
  /\ Len(frame.calls) = 2
  /\ frame.calls[1].painted /\ frame.calls[2].painted
  /\ frame.calls[2].alpha = <<1, 2>>

(***************************************************************************)
(* C8.  In every frame that is outside the fade window, or shows the last   *)
(* image of its section, or is rendered under transition None, exactly one  *)
(* image, the current one, is drawn, at full opacity; and every image drawn *)
(* in a frame, blended or not, is an image of the frame's own section.      *)
(***************************************************************************)
C8_SingleImage ==
  FrameOfSection =>
    LET t == frame.timing
        N == Len(loadedImages)
        remaining == RSub(IntervalEnd(t), R(frame.elapsed))
    IN /\ (\/ TransitionType(data.config) = "None"
           \/ t.imgIndex >= N - 1
           \/ RLe(Seconds(<<1, 2>>), remaining)
           => /\ Len(frame.calls) = 1
              /\ frame.calls[1].img = t.imgIndex
              /\ frame.calls[1].alpha = R(1)
              /\ frame.calls[1].painted = loadedImages[t.imgIndex + 1])
       /\ \A c \in 1..Len(frame.calls) : frame.calls[c].img \in 0..(N - 1)

\* under Fade, a frame of a non-last image before its fade window
C8_Witness ==
  /\ FrameOfSection
  /\ TransitionType(data.config) = "Fade"
  /\ frame.timing.imgIndex < Len(loadedImages) - 1
  /\ RSub(IntervalEnd(frame.timing), R(frame.elapsed)) = Seconds(<<1, 2>>)
  /\ Len(frame.calls) = 1

(***************************************************************************)
(* C9.  A decoded narration is started at the clock instant taken as the    *)
(* section's time zero and plays while the section's frames are drawn; it   *)
(* is stopped at the first tick whose elapsed time is >= the duration,      *)
(* before the next section begins Preparing; a narration never starts       *)
(* before the previous section's narration was stopped.                     *)
(***************************************************************************)
C9_Narration ==
  LET elapsed == clock - startTime IN
  /\ (pc \in {"ticking", "sectiondone"} =>
        /\ (voiceSource # NoVoice) = voiceBuffer.decoded
        /\ (voiceSource # NoVoice =>
              voiceSource = VoiceNode(i) /\ voiceStartedAt = startTime))
  /\ (pc = "ticking" =>
        /\ (voiceSource # NoVoice => voiceSource \in bus)
        /\ (elapsed < duration \/ clock = startTime))
  /\ (pc = "sectiondone" => elapsed >= duration)
  /\ (pc # "ticking" => \A k \in 0..MaxParts + 1 : VoiceNode(k) \notin bus)
  /\ \A a, b \in bus : a.kind = "voice" /\ b.kind = "voice" => a = b

\* the second section's narration was started and has been stopped
C9_Witness ==
  /\ pc = "sectiondone" /\ voiceSource = VoiceNode(1)
  /\ voiceStartedAt = startTime /\ startTime > 0 /\ bus \subseteq {BgNode}

(***************************************************************************)
(* C10.  As claimed: when a background track is supplied and the configured *)
(* volume is > 0, exactly one looping background source is created, with    *)
(* gain volume*0.5, started before the first section begins.                *)
(***************************************************************************)
BgPhaseOver == pc \notin {"start", "bgmusic", "bgdecode", "failed"}

BgSupplied ==
  data.backgroundMusic # "" /\ data.config.present
    /\ data.config.bgMusicVolume > 0

C10_AsClaimed ==
  BgPhaseOver /\ BgSupplied =>
    /\ bgSource = [created |-> TRUE, loop |-> TRUE,
                   gain |-> Rat(data.config.bgMusicVolume, 20)]
    /\ bgLog \in {<<"start">>, <<"start", "stop">>}

(***************************************************************************)
(* C10, amended.  When a background track is supplied, the volume is > 0    *)
(* and the track loads and decodes, exactly one looping background source   *)
(* is created, with gain volume*0.5, started before the first section       *)
(* begins and stopped only after the last section is Done, never stopped or *)
(* restarted at a section boundary.  When no track is supplied, the volume  *)
(* is 0, the config is missing or the track fails to load or decode, no     *)
(* background source is ever created.                                       *)
(***************************************************************************)
C10_Background ==
  LET decodeFailed == bgLog = <<"warn">> IN
  /\ bgLog \in {<<>>, <<"warn">>, <<"start">>, <<"start", "stop">>}
  /\ BgPhaseOver /\ BgSupplied /\ ~decodeFailed =>
       /\ bgSource = [created |-> TRUE, loop |-> TRUE,
                      gain |-> Rat(data.config.bgMusicVolume, 20)]
       /\ bgLog[1] = "start"
  /\ ~BgSupplied \/ decodeFailed =>
       bgSource = NoSource /\ BgNode \notin bus /\ bgLog \in {<<>>, <<"warn">>}
  /\ order # <<>> /\ bgSource.created => bgLog[1] = "start"
  /\ (BgNode \in bus) = (bgLog = <<"start">>)
  /\ bgLog = <<"start", "stop">> =>
       pc \in {"finalize", "done", "hung"} /\ i = SectionCount(data)
  /\ bgSource.created /\ pc \in {"finalize", "done", "hung"} =>
       bgLog = <<"start", "stop">>

\* the track played through two sections and was stopped at completion
C10_Witness ==
  pc = "done" /\ order = <<0, 1>> /\ bgLog = <<"start", "stop">>

(***************************************************************************)
(* C11.  In every reachable state of a render at most two sources play into *)
(* the audio bus: at most one background source (started at most once) and  *)
(* at most one narration source.                                            *)
(***************************************************************************)
SourcesOf(kind) == {n \in bus : n.kind = kind}

Starts(log) == Cardinality({k \in DOMAIN log : log[k] = "start"})

C11_TwoSources ==
  /\ Cardinality(SourcesOf("bg")) <= 1
  /\ Starts(bgLog) <= 1
  /\ Cardinality(SourcesOf("voice")) <= 1
  /\ Cardinality(bus) <= 2
  /\ bus = SourcesOf("bg") \cup SourcesOf("voice")

\* the background track and the second section's narration play together
C11_Witness ==
  pc = "ticking" /\ bus = {BgNode, VoiceNode(1)} /\ frames > 0

(***************************************************************************)
(* C12.  When a section's narration is missing or fails to decode the       *)
(* render is not aborted: the section is rendered with no narration source  *)
(* started and with the fallback duration of 5 s, and the later sections    *)
(* are still reached; the render fails only before its first section.       *)
(***************************************************************************)
C12_SilentSection ==
  /\ (pc \in {"preload", "play", "ticking", "sectiondone"}
        /\ ~voiceBuffer.decoded =>
        /\ duration = FallbackSeconds * FPS
        /\ voiceSource = NoVoice
        /\ VoiceNode(i) \notin bus
        /\ result = "pending"
        /\ (pc = "sectiondone" => frames > 0 /\ frame.sec = i))
  /\ (pc = "failed" => order = <<>>)
  /\ (pc \in {"stopbg", "finalize", "done"} =>
        Len(order) = SectionCount(data))

\* the intro's narration failed to decode, the intro was rendered in silence
\* for 5 s and the part after it was rendered
C12_Witness ==
  /\ pc = "done" /\ order = <<0, 1>> /\ frame.sec = 1
  /\ faults = 1 /\ clock >= FallbackSeconds * FPS

(***************************************************************************)
(* C13.  An image that fails to load is treated as absent: the section is   *)
(* rendered as if the image were not in its list, so at every frame the     *)
(* interval resolved is the one the loaded images alone would be given, and *)
(* the image drawn is a loaded one.                                         *)
(***************************************************************************)
Loaded(l) == {k \in DOMAIN l : l[k]}

\* the 0-based position in l of its n-th loaded image, n counted from 0
NthLoaded(l, n) ==
  CHOOSE k \in Loaded(l) : Cardinality({j \in Loaded(l) : j < k}) = n

C13_FailedImageAbsent ==
  FrameOfSection /\ Loaded(loadedImages) # {} =>
    LET n == Cardinality(Loaded(loadedImages))
        titleLoaded == section.titleCard # "" /\ loadedImages[1]
        t == ImageTiming(IF titleLoaded THEN section.titleCard ELSE "", n,
                         duration, frame.elapsed)
    IN /\ frame.timing.start = t.start
       /\ frame.timing.dur = t.dur
       /\ frame.calls[1].img + 1 = NthLoaded(loadedImages, Min2(t.imgIndex, n - 1))
       /\ frame.calls[1].painted

(***************************************************************************)
(* C14.  The Ken-Burns scale 1.0 + (maxZoom - 1.0)*progress does not        *)
(* decrease as progress grows and lies in [1.0, maxZoom] for every progress *)
(* in [0, 1], with maxZoom 1.05 for Slow, 1.15 for Medium and 1.25 for Fast *)
(* (strictly increasing); every draw of a frame uses a progress in [0, 1]   *)
(* and the scale of that progress.                                          *)
(***************************************************************************)
\* the progress values k/4 the scale of a frame is compared at
ProgressGrid == {Rat(k, 4) : k \in 0..4}

C14_KenBurns ==
  /\ MaxZoom("Slow") = Rat(105, 100)
  /\ MaxZoom("Medium") = Rat(115, 100)
  /\ MaxZoom("Fast") = Rat(125, 100)
  /\ RLt(MaxZoom("Slow"), MaxZoom("Medium"))
  /\ RLt(MaxZoom("Medium"), MaxZoom("Fast"))
  /\ (frames > 0 =>
        LET maxZoom == MaxZoom(AnimationSpeed(data.config)) IN
        \A c \in 1..Len(frame.calls) :
          LET p == frame.calls[c].progress
              scale == frame.calls[c].scale
          IN /\ RLe(R(0), p) /\ RLe(p, R(1))
             /\ scale = CurrentScale(maxZoom, p)
             /\ RLe(R(1), scale) /\ RLe(scale, maxZoom)
             /\ (p = R(0) => scale = R(1))
             /\ \A q \in ProgressGrid :
                  /\ RLe(R(1), CurrentScale(maxZoom, q))
                  /\ RLe(CurrentScale(maxZoom, q), maxZoom)
                  /\ (RLe(p, q) => RLe(scale, CurrentScale(maxZoom, q)))
                  /\ (RLe(q, p) => RLe(CurrentScale(maxZoom, q), scale)))

\* half way through an image's interval at speed Fast: the scale is 1.125
C14_Witness ==
  /\ FrameOfSection
  /\ AnimationSpeed(data.config) = "Fast"
  /\ frame.calls[1].progress = <<1, 2>>
  /\ frame.calls[1].scale = <<9, 8>>

(***************************************************************************)
(* C15.  Within a section the images are shown in list order, the title     *)
(* card first when present: from one frame of a section to the next the     *)
(* index of the active image never decreases.                               *)
(***************************************************************************)
\* the image a frame shows: loadedImages[Math.min(imgIndex, length - 1)]
ActiveImage(f) == f.calls[1].img

C15_ListOrder ==
  [][frame' # frame /\ frames > 0 /\ frame'.sec = frame.sec =>
       /\ ActiveImage(frame') >= ActiveImage(frame)
       /\ frame'.timing.imgIndex >= frame.timing.imgIndex
       /\ frame'.elapsed > frame.elapsed
       /\ ActiveImage(frame') \in 0..(Len(loadedImages) - 1)]_vars

\* the second content image after a title card is on screen
C15_Witness ==
  /\ FrameOfSection /\ section.titleCard # ""
  /\ frames > 2 /\ ActiveImage(frame) = 2

(***************************************************************************)
(* C16.  Global completion happens once and only after the last section is  *)
(* Done: the background source is stopped, then the recorder is stopped,    *)
(* then the blob is delivered to the caller; once the recorder has been     *)
(* stopped no frame is drawn and no narration is started.                   *)
(***************************************************************************)
RecorderWasStopped == recorder \in {"stopping", "inactive", "error"}

C16_Completion ==
  [][/\ (recorder' = "stopping" /\ recorder # "stopping" =>
           /\ pc = "stopbg" /\ recorder = "recording"
           /\ i = SectionCount(data) /\ Len(order) = SectionCount(data)
           /\ ~interval
           /\ BgNode \notin bus' /\ bus' = {}
           /\ (bgSource.created => bgLog' = <<"start", "stop">>)
           /\ result' = "pending")
     /\ (result' = "blob" /\ result # "blob" =>
           recorder = "stopping" /\ result = "pending" /\ pc' = "done")
     /\ (RecorderWasStopped =>
           /\ frame' = frame /\ frames' = frames
           /\ voiceSource' = voiceSource /\ bus' = bus /\ order' = order
           /\ interval' = interval /\ bgLog' = bgLog
           /\ recorder' \in {"inactive", "error"})
     /\ (result = "blob" => result' = "blob" /\ pc' = pc)
    ]_vars

\* two sections drew their frames, then the recorder stopped and the blob
\* was delivered
C16_Witness ==
  /\ pc = "done" /\ result = "blob" /\ recorder = "inactive"
  /\ i = 2 /\ frame.sec = 1 /\ frames > 0 /\ bus = {}

(***************************************************************************)
(* C17.  Every render over a finite section list terminates: provided the   *)
(* clock keeps advancing and timer callbacks, decodes and image loads       *)
(* eventually complete or fail, every section that is begun reaches Done    *)
(* (or is skipped), and the render settles: once the recorder is recording, *)
(* the encoded result is eventually delivered.                              *)
(***************************************************************************)
InSection ==
  pc \in {"voicedecode", "images", "preload", "play", "ticking"}

C17_Terminates ==
  /\ (InSection ~> pc \in {"sectiondone", "loop"})
  /\ <>(result # "pending")
  /\ (recorder = "recording" ~> result = "blob")

(***************************************************************************)
(* C18.  When the drawing surface or the encoder cannot be created at       *)
(* start, the render aborts with an error before any frame of any section   *)
(* is drawn and before any progress callback, and handleRenderVideo reports *)
(* it as one error, with no video artifact made of that render.             *)
(***************************************************************************)
C18_InitFailure ==
  [][/\ (pc' = "failed" /\ pc # "failed" =>
           /\ pc \in {"start", "recorder"}
           /\ result' = "error"
           /\ frame' = NoFrame /\ frames' = 0
           /\ order' = <<>>
           /\ recorder' = "none")
     /\ (pc = "failed" =>
           /\ pc' = "idle"
           /\ errorMsg' = "Failed to render video."
           /\ status' = "COMPLETE"
           /\ videoUrl' = videoUrl /\ videoUrl' # renders
           /\ running' = 0
           /\ frame' = NoFrame /\ order' = <<>>)
    ]_vars

\* the encoder could not be created after the background track had started;
\* the error was reported and no video was made
C18_Witness ==
  /\ pc = "idle" /\ result = "error" /\ status = "COMPLETE"
  /\ errorMsg = "Failed to render video." /\ videoUrl = 0
  /\ bgLog = <<"start">> /\ frame = NoFrame /\ order = <<>>

(***************************************************************************)
(* C19.  When finalizing the encoder fails (the recorder reports an error   *)
(* or never delivers its stop event), renderVideo ends by reporting a       *)
(* failure to its caller and returns no blob: it does not stay pending and  *)
(* it does not return a partial result.                                     *)
(***************************************************************************)
C19_FinalizeFailure ==
  recorder = "error" => result = "error" /\ pc = "failed"

(***************************************************************************)
(* C20.  At most one frame loop is active at any time: a section's timer is *)
(* cleared before the next section's timer is set, and the application      *)
(* never calls renderVideo while an earlier call is running: the render     *)
(* control is shown only in state COMPLETE and the state is RENDERING_VIDEO *)
(* for the whole run.                                                       *)
(***************************************************************************)
C20_OneFrameLoop ==
  /\ running \in {0, 1}
  /\ (running = 1) = (status = "RENDERING_VIDEO")
  /\ (pc # "idle") = (status = "RENDERING_VIDEO")
  /\ (pc = "idle") = (status = "COMPLETE")
  /\ (status = "RENDERING_VIDEO" => ~RenderControlVisible(status))
  /\ (interval => pc = "ticking" /\ running = 1)
  /\ (pc = "play" => ~interval)

\* the timer of the second section of the second render is set
C20_Witness ==
  /\ pc = "ticking" /\ interval /\ i = 1 /\ renders = 2
  /\ status = "RENDERING_VIDEO" /\ frames > 0

(***************************************************************************)
(* C21.  The progress callback is invoked exactly once per section of the   *)
(* timeline, in timeline order and before that section's first frame, with  *)
(* the label built from the section's title, or from "Intro" when the       *)
(* section has no title: a message is logged only when the loop enters a    *)
(* section, it is the message of that section, it is the i-th message for   *)
(* the section of index i, every frame is drawn after the message of its    *)
(* section, and when the loop is left there is one message per section.     *)
(***************************************************************************)
LabelOf(s) ==
  IF s.title = "" THEN "Rendering: Intro" ELSE "Rendering: " \o s.title

C21_ProgressCallback ==
  [][/\ (progressLog' # progressLog =>
           /\ pc = "loop" /\ pc' \in {"voicedecode", "images"}
           /\ order' = Append(order, i) /\ i < SectionCount(data)
           /\ Len(progressLog) = i
           /\ progressLog' = Append(progressLog, LabelOf(section'))
           /\ frames' = 0 /\ frame' = frame /\ frame.sec < i)
     /\ (order' # order => progressLog' # progressLog)
     /\ (frames' > frames =>
           /\ frame'.sec = i' /\ Len(progressLog') = i' + 1
           /\ progressLog' = progressLog
           /\ progressLog[i + 1] = LabelOf(section))
     /\ (pc' = "stopbg" => Len(progressLog') = SectionCount(data))
    ]_vars

\* a render of two sections, the intro without a title and a part with one,
\* delivered its blob
C21_Witness ==
  /\ pc = "done" /\ result = "blob" /\ frame.sec = 1
  /\ progressLog = <<"Rendering: Intro", "Rendering: Part 1">>

(***************************************************************************)
(* C22.  Interval planning is a pure function: the image index, the start   *)
(* and the duration of the interval resolved for a frame are those the      *)
(* planning gives for (title card, number of loaded images, section         *)
(* duration, local elapsed time) alone, whatever frames and sections came   *)
(* before.                                                                  *)
(***************************************************************************)
C22_PurePlanning ==
  FrameOfSection =>
    frame.timing = ImageTiming(section.titleCard, Len(loadedImages),
                               duration, frame.elapsed)

\* the first frame of the second section shows the first image after the
\* first section was played to its end on its second image
C22_Witness ==
  /\ FrameOfSection /\ i = 1 /\ frames = 1
  /\ Len(loadedImages) = 2 /\ frame.timing.imgIndex = 0
  /\ playedTotal > 2

(***************************************************************************)
(* C23.  The caller can abandon a running render at any tick boundary:      *)
(* after abandonment no further frame is drawn and no further narration is  *)
(* started, and decodes still in flight complete without any effect on the  *)
(* output.                                                                  *)
(***************************************************************************)
C23_Cancellation ==
  [][abandoned =>
       /\ frames' = frames /\ frame' = frame
       /\ voiceSource' \in {voiceSource, NoVoice}
       /\ bus' \subseteq bus
       /\ result' = result
    ]_vars

(***************************************************************************)
(* C24.  generateTitleCard has no error path: for every text, the empty     *)
(* text included, and for every aspect ratio it resolves with a non-empty   *)
(* image asset, one that a section's images to show would begin with.       *)
(***************************************************************************)
C24_NoErrorPath ==
  card.state = "resolved" =>
    /\ card.url # ""
    /\ ImagesToShow([NoSection EXCEPT !.titleCard = card.url]) = <<card.url>>

(***************************************************************************)
(* C25.  Every frame drawn for a section is drawn at a local elapsed time   *)
(* with 0 <= elapsed < duration, its image index lies in                    *)
(* [0, loadedImages.length - 1], and the elapsed time lies inside the       *)
(* resolved interval; at the first callback with elapsed >= duration no     *)
(* frame is drawn and the timer is cleared, and once the timer is cleared   *)
(* no frame is drawn.                                                       *)
(***************************************************************************)
C25_FrameBounds ==
  [][/\ (frames' > frames =>
           /\ pc = "ticking" /\ interval /\ interval'
           /\ frame'.elapsed = clock' - startTime
           /\ 0 <= frame'.elapsed /\ frame'.elapsed < duration
           /\ frame'.timing.imgIndex \in 0..(Len(loadedImages) - 1)
           /\ InInterval(frame'.timing, frame'.elapsed))
     /\ (pc = "ticking" /\ clock' # clock /\ clock' - startTime >= duration =>
           /\ frames' = frames /\ frame' = frame
           /\ ~interval' /\ pc' = "sectiondone")
     /\ (~interval => frames' = frames /\ frame' = frame)
    ]_vars

\* four images: the last frame showed the fourth, then the callback at the
\* section's end cleared the timer
C25_Witness ==
  /\ pc = "sectiondone" /\ ~interval /\ frame.sec = i
  /\ Len(loadedImages) = 4 /\ frame.timing.imgIndex = 3 /\ frames > 3
  /\ clock - startTime > duration

(***************************************************************************)
(* C26.  Playback of a section begins only after its Preparing step has     *)
(* settled: no frame of a section is drawn and its narration is not started *)
(* until its narration decode has succeeded or failed and every one of its  *)
(* image loads has either loaded or failed.                                 *)
(***************************************************************************)
Preparing == pc \in {"voicedecode", "images", "preload"}

\* every image load of the section has settled, loaded or failed
LoadsSettled == DOMAIN loadedImages = DOMAIN ValidSrcs(section)

C26_PreparedBeforePlaying ==
  [][/\ (Preparing =>
           /\ frames' = 0 /\ frame' = frame
           /\ voiceSource' = NoVoice /\ VoiceNode(i) \notin bus'
           /\ ~interval')
     /\ (frames' > frames \/ voiceSource' \notin {voiceSource, NoVoice}
           => /\ pc \in {"play", "ticking"}
              /\ LoadsSettled /\ Len(loadedImages) > 0
              /\ (voiceSource' # NoVoice => voiceBuffer.decoded))
     /\ (pc' \in {"play", "ticking"} => LoadsSettled' /\ ~Preparing')
     /\ (pc = "voicedecode" => pc' = "images" /\ frames' = 0)
    ]_vars

\* the decode and the loads took their time, one load failed, and then the
\* first frame was drawn while the narration played
C26_Witness ==
  /\ pc = "ticking" /\ frames = 1 /\ voiceSource = VoiceNode(i)
  /\ Len(loadedImages) = 2 /\ ~loadedImages[2]
  /\ voiceBuffer.decoded

(***************************************************************************)
(* C27.  At the moment a rendered section starts Playing, the global        *)
(* elapsed time of the output (the time since the recorder was started) is  *)
(* the sum of the durations of the sections played before: neither the      *)
(* Preparing stall of a section nor the callback at which the end of a      *)
(* section is detected adds time between sections.                          *)
(***************************************************************************)
C27_GlobalElapsed ==
  pc = "ticking" => startTime - recordStart = playedTotal

(***************************************************************************)
(* C28.  A section with renderable images whose narration duration is 0 is  *)
(* a zero-duration, zero-frame section: its first callback ends it and no   *)
(* frame is ever drawn for it.                                              *)
(***************************************************************************)
ZeroNarration == voiceBuffer.decoded /\ voiceBuffer.duration = 0

C28_ZeroDuration ==
  [][/\ (pc = "ticking" /\ ZeroNarration =>
           /\ duration = 0 /\ frames = 0
           /\ pc' = "sectiondone" /\ ~interval'
           /\ frames' = 0 /\ frame' = frame
           /\ playedTotal' = playedTotal)
     /\ (pc = "sectiondone" /\ ZeroNarration =>
           frames = 0 /\ frame.sec # i /\ frame' = frame)
    ]_vars

\* the second section, with an image and a narration of duration 0, ended
\* at its first callback with no frame drawn
C28_Witness ==
  /\ pc = "sectiondone" /\ i = 1 /\ ZeroNarration
  /\ Len(loadedImages) >= 1 /\ loadedImages[1]
  /\ frames = 0 /\ frame.sec = 0

(***************************************************************************)
(* C29.  renderVideo never modifies the project data it is given: the       *)
(* config and the music are what they were before the call, and a section's *)
(* title, images, narration handle and title card are, from the moment the  *)
(* loop takes the section to the end of the render, what they were.         *)
(***************************************************************************)
C29_DataUntouched ==
  [][/\ data' = data
     /\ (section' # section => pc = "loop" /\ order' = Append(order, i))
    ]_vars

\* a render of two sections, the second with a title card and an image,
\* delivered its blob
C29_Witness ==
  /\ pc = "done" /\ result = "blob" /\ i = 2 /\ frame.sec = 1
  /\ section.titleCard # "" /\ Len(section.generatedImages) = 1
  /\ Len(loadedImages) = 2

(***************************************************************************)
(* C30.  If the background track fails to load or decode, the render        *)
(* proceeds without background music: no background source is created or    *)
(* playing at any time, the render continues from the state a render with   *)
(* no background track is in at the recorder's setup, and the failure is    *)
(* not propagated to the caller.                                            *)
(***************************************************************************)
BgFailed == \E k \in DOMAIN bgLog : bgLog[k] = "warn"

C30_BgFailure ==
  [][/\ (BgFailed' => /\ ~bgSource'.created /\ BgNode \notin bus'
                      /\ bgLog' = <<"warn">>)
     /\ (pc = "bgdecode" => pc' = "recorder" /\ result' = "pending")
     /\ (BgFailed' /\ ~BgFailed =>
           /\ pc = "bgdecode" /\ pc' = "recorder"
           /\ bgSource' = NoSource /\ bus' = {} /\ recorder' = "none"
           /\ i' = 0 /\ section' = NoSection /\ frame' = NoFrame
           /\ frames' = 0 /\ order' = <<>> /\ progressLog' = <<>>
           /\ voiceSource' = NoVoice /\ ~interval')
     /\ (BgFailed /\ pc = "stopbg" => bus' = bus /\ bgLog' = bgLog)
    ]_vars

\* the track failed to decode; the render drew the frames of its two
\* sections, played a narration and delivered its blob
C30_Witness ==
  /\ BgFailed /\ pc = "done" /\ result = "blob"
  /\ i = 2 /\ frame.sec = 1 /\ bus = {}

(***************************************************************************)
(* C31.  Every drawn frame starts from a surface cleared to solid black,    *)
(* followed by at most two image layers (current, then incoming): nothing   *)
(* drawn in an earlier frame is visible in a later frame, and a frame whose *)
(* image failed to load (width 0) is fully black.                           *)
(***************************************************************************)
\* no layer of the frame was painted: the canvas shows the black fill
Black(f) == \A k \in DOMAIN f.calls : ~f.calls[k].painted

C32_CoverFit ==
  fit.state = "drawn" =>
    LET canvasW == R(RenderWidth(fit.aspectRatio))
        canvasH == R(RenderHeight(fit.aspectRatio))
    IN /\ RLe(canvasW, fit.scaledW) /\ RLe(canvasH, fit.scaledH)
       /\ RAdd(fit.x, fit.x) = RSub(canvasW, fit.scaledW)
       /\ RAdd(fit.y, fit.y) = RSub(canvasH, fit.scaledH)
       /\ RLe(fit.x, R(0)) /\ RLe(fit.y, R(0))
       /\ RLe(canvasW, RAdd(fit.x, fit.scaledW))
       /\ RLe(canvasH, RAdd(fit.y, fit.scaledH))
       /\ RMul(fit.scaledW, R(fit.imgH)) = RMul(fit.scaledH, R(fit.imgW))

\* a tall image on the landscape canvas, half way through the Fast zoom:
\* 1280 * 1.125 = 1440 wide, cropped above and below
C32_Witness ==
  /\ fit.state = "drawn" /\ fit.aspectRatio = "16:9"
  /\ fit.imgW = 1000 /\ fit.imgH = 4000
  /\ fit.animationSpeed = "Fast" /\ fit.progress = <<1, 2>>
  /\ fit.scaledW = R(1440) /\ fit.x = R(-80) /\ RLt(fit.y, R(0))

(***************************************************************************)
(* C33.  Title-card word wrap is greedy and lossless: the emitted lines,    *)
(* concatenated in order, contain every word of the text exactly once and   *)
(* in the original order; a new line is started exactly when appending the  *)
(* next word would make the measured line wider than canvasWidth - margin   *)
(* (margin 200 for landscape, 100 for portrait); the first word never       *)
(* starts a new line, so no empty line is emitted and a single over-wide    *)
(* word is kept whole on its own line.                                      *)
(***************************************************************************)
RECURSIVE Flatten(_)
Flatten(ls) == IF ls = <<>> THEN <<>> ELSE Head(ls) \o Flatten(Tail(ls))

C33_WordWrap ==
  card.state = "resolved" /\ card.url # "" =>
    LET L == card.lines
        fontSize == IF card.aspectRatio = "9:16" THEN 70 ELSE 80
        limit == IF card.aspectRatio = "9:16" THEN 1080 - 100 ELSE 1920 - 200
        Wide(line) == MeasureText(line, fontSize) > limit
    IN /\ Len(L) >= 1
       /\ Flatten(L) = card.text
       /\ \A k \in DOMAIN L : L[k] # <<>>
       /\ \A k \in DOMAIN L : Len(L[k]) >= 2 => ~Wide(L[k])
       /\ \A k \in DOMAIN L :
            k < Len(L) => Wide(Append(L[k], Head(L[k + 1])))
       /\ \A k \in DOMAIN L : \A j \in DOMAIN L[k] :
            Wide(<<L[k][j]>>) => Len(L[k]) = 1

\* an over-wide first word stays alone on the first line, the two words
\* after it share the second
C33_Witness ==
  /\ card.state = "resolved" /\ card.aspectRatio = "16:9"
  /\ card.text = <<1800, 900, 20>>
  /\ card.lines = << <<1800>>, <<900, 20>> >>

(***************************************************************************)
(* C34.  While the same image stays the active image of a section, the zoom *)
(* progress used to draw it never decreases from one frame to the next (the *)
(* Ken-Burns zoom never jumps backwards), for every combination of title    *)
(* card presence, image count and duration.                                 *)
(***************************************************************************)
C34_ZoomMonotone ==
  [][frames > 0 /\ frames' > frames /\ frame'.sec = frame.sec
       /\ ActiveImage(frame') = ActiveImage(frame)
       => RLe(frame.calls[1].progress, frame'.calls[1].progress)
    ]_vars

(***************************************************************************)
(* C35.  In every rendered section, every loaded image (title card          *)
(* included) is the active image of at least one drawn frame, whatever the  *)
(* section duration and image count, given one tick every 1/30 time unit    *)
(* with the first tick one interval after the section starts.               *)
(***************************************************************************)
\* the images of the section, by 0-based index
AllImages == 0..(Len(loadedImages) - 1)

\* as claimed: whatever the duration and the image count
C35_AsClaimed ==
  pc = "sectiondone" => \A k \in Loaded(loadedImages) : (k - 1) \in shown

\* the first interval of the section is longer than one timer period and
\* every later one is at least one period long
RoomForEveryImage ==
  LET n == Len(loadedImages) IN
  IF section.titleCard # "" /\ n > 1
  THEN /\ RLt(R(1), TitleDuration(duration))
       /\ RLe(R(1), RDiv(RSub(R(duration), TitleDuration(duration)),
                         R(n - 1)))
  ELSE RLt(R(1), Rat(duration, n))

\* With one callback per timer period: when the first interval is longer
\* than one period and every later one at least one period long, every image
\* has been the active image of a frame when the section ends; and the
\* images shown are at all times the first ones of the list, none left out.
C35_EveryImageShown ==
  /\ (pc = "sectiondone" /\ RoomForEveryImage => shown = AllImages)
  /\ (pc \in {"ticking", "sectiondone"} /\ frames > 0 =>
        /\ shown \subseteq AllImages
        /\ ActiveImage(frame) \in shown
        /\ (RoomForEveryImage => shown = 0..ActiveImage(frame)))

\* a title card and three images over 45 periods: the four were shown
C35_Witness ==
  /\ pc = "sectiondone" /\ section.titleCard # ""
  /\ Len(loadedImages) = 4 /\ duration = 45
  /\ shown = {0, 1, 2, 3} /\ RoomForEveryImage

(***************************************************************************)
(* C36.  Under transition Fade, the opacity used for the incoming image     *)
(* always lies in [0, 1), is strictly increasing over the successive frames *)
(* of one interval, and the incoming image is overlaid only during the      *)
(* final 0.5 time units of the current image's interval, also when that     *)
(* interval is shorter than 0.5 time units.                                 *)
(***************************************************************************)
\* the frame overlays an incoming image
Overlaid(f) == Len(f.calls) = 2

C36_FadeOpacity ==
  [][frames' > frames =>
       /\ (Overlaid(frame') =>
             LET t == frame'.timing
                 remaining == RSub(IntervalEnd(t), R(frame'.elapsed))
                 alpha == frame'.calls[2].alpha
             IN /\ TransitionType(data.config) = "Fade"
                /\ t.imgIndex < Len(loadedImages) - 1
                /\ RLe(R(0), alpha) /\ RLt(alpha, R(1))
                /\ RLt(R(0), remaining)
                /\ RLt(remaining, Seconds(<<1, 2>>))
                /\ RLe(t.start, R(frame'.elapsed)))
       /\ (frames > 0 /\ frame'.sec = frame.sec
             /\ Overlaid(frame) /\ Overlaid(frame')
             /\ frame'.timing.imgIndex = frame.timing.imgIndex
             => RLt(frame.calls[2].alpha, frame'.calls[2].alpha))
       /\ (frames > 0 /\ frame'.sec = frame.sec /\ Overlaid(frame)
             /\ frame'.timing.imgIndex = frame.timing.imgIndex
             => Overlaid(frame'))
    ]_vars

\* a content interval of 7.5 periods, shorter than 0.5 s: the incoming image
\* is overlaid from the interval's first frame on, its opacity growing
C36_Witness ==
  /\ FrameOfSection /\ Overlaid(frame) /\ frames > 2
  /\ frame.timing.imgIndex = 1 /\ frame.timing.dur = <<15, 2>>
  /\ RLt(frame.timing.dur, Seconds(<<1, 2>>))
  /\ RLt(R(0), frame.calls[2].alpha)

(***************************************************************************)
(* C37.  A background source that has been started is stopped on every way  *)
(* a render can end: after normal completion and also when the render       *)
(* aborts after the background track has started (for example when creating *)
(* the encoder fails), no background source is left playing.                *)
(***************************************************************************)
C37_BgStoppedAtEnd ==
  pc \in {"done", "failed"} => BgNode \notin bus
====
